---- MODULE Spec2Model ----
(***************************************************************************)
(* Model of the ICFES + PIB ETL pipeline (dags/scripts):                   *)
(*   transform_icfes.run   the Consolidator                                *)
(*   transform_api.run     the Lookup Normalizer                           *)
(*   merge.run             the Join & Imputation engine                    *)
(*   load_dw.run           the Bulk Loader                                 *)
(* Text is modelled as sequences of one-character strings, so that parsing *)
(* and formatting are computed, not assumed.  A missing value (None / NaN) *)
(* is the model value NULL.                                                *)
(***************************************************************************)
EXTENDS Integers, Sequences, FiniteSets, TLC

VARIABLES
    depto_str,   \* SpecNorm: the argument given to _normalizar_departamento
    norm_pc,     \* SpecNorm: "in" -> "once" -> "twice"
    norm1,       \* SpecNorm: outcome of _normalizar_departamento(depto_str)
    norm2,       \* SpecNorm: outcome of applying it to norm1
    raw_csvs,    \* the yearly source files handed to transform_icfes.run
    icfes_merged,\* the consolidated file data/icfes_merged.csv
    merged_src,  \* history: for each row of icfes_merged, <<input file, row>>
    merged_before,\* history: icfes_merged as it was before the run
    res_icfes,   \* what transform_icfes.run returned or raised
    pc_icfes,    \* "ready" -> "done" | "failed"
    pib_raw,     \* the raw file of the API handed to transform_api.run
    pib_csv,     \* the lookup file data/pib_by_depto_year.csv
    pib_origin,  \* history: "none", "transform_api" or "external"
    res_api,     \* what transform_api.run returned or raised
    pc_api,      \* "ready" -> "done" | "failed"
    ddm_csv,     \* the enriched file staging/ddm_icfes_pib.csv
    ddm_src,     \* history: for each row of ddm_csv, its row of icfes_merged
    ddm_pre,     \* history: for each row of ddm_csv, its value before imputation
    res_merge,   \* what merge.run returned or raised
    pc_merge,    \* "ready" -> "done" | "failed"
    tabla,       \* the table ddm_icfes_pib of the warehouse
    res_load,    \* what the last load_dw.run returned or raised
    n_loads,     \* number of load_dw.run calls so far
    tabla_before, \* the table as the last load_dw.run call found it
    load_calls,  \* the replace flag of every load_dw.run call so far
    ld_disk,     \* SpecLoad: the files on disk, a function from paths to files
    ld_call,     \* SpecLoad: the arguments of the load_dw.run call and its fault
    ld_out,      \* SpecLoad: the path used, the connection, the commits made
    ld_debug,    \* SpecLoad: the diagnostic artifacts written
    pc_load,     \* SpecLoad: "ready" -> "done" | "failed"
    idx_columns, \* SpecIdx: the columns given to _create_indexes
    idx_failing, \* SpecIdx: the index names whose CREATE INDEX fails
    idx_txn,     \* SpecIdx: the transaction _create_indexes runs in
    idx_res,     \* SpecIdx: what _create_indexes did
    pc_idx,      \* SpecIdx: "ready" -> "done"
    task_state,  \* SpecDag: the state of every task instance of the DAG run
    task_tries   \* SpecDag: the attempts every task has started

varsNorm == <<depto_str, norm_pc, norm1, norm2>>

varsIcfes ==
    <<raw_csvs, icfes_merged, merged_src, merged_before, res_icfes, pc_icfes>>

varsApi == <<pib_raw, pib_csv, pib_origin, res_api, pc_api>>

varsMerge == <<ddm_csv, ddm_src, ddm_pre, res_merge, pc_merge>>

varsLoad == <<tabla, res_load, n_loads, tabla_before, load_calls>>

varsLoadEnv == <<ld_disk, ld_call, ld_out, ld_debug, pc_load>>

varsIdx == <<idx_columns, idx_failing, idx_txn, idx_res, pc_idx>>

varsDag == <<task_state, task_tries>>

varsAux == <<varsLoadEnv, varsIdx, varsDag>>

vars == <<varsNorm, varsIcfes, varsApi, varsMerge, varsLoad, varsAux>>

\* ------------------------------------------------------------------------
\* Values
\* ------------------------------------------------------------------------
NULL == <<"NULL">>               \* None / NaN / pd.NA (no text has this shape)
OverflowError == <<"OverflowError">> \* an exception that leaves the function
UNSET == <<"UNSET">>             \* not computed yet

\* ------------------------------------------------------------------------
\* Bounds
\* ------------------------------------------------------------------------
MaxStrLen == 3                   \* longest generated region-code text

\* ------------------------------------------------------------------------
\* Python text primitives
\* ------------------------------------------------------------------------
DigitChars == {"0", "1", "2", "3", "4", "5", "6", "7", "8", "9"}

IsDigit(c) == c \in DigitChars

IsSpace(c) == c \in {" ", "\t", "\n", "\r"}

DigitVal(c) ==
    CASE c = "0" -> 0 [] c = "1" -> 1 [] c = "2" -> 2 [] c = "3" -> 3
      [] c = "4" -> 4 [] c = "5" -> 5 [] c = "6" -> 6 [] c = "7" -> 7
      [] c = "8" -> 8 [] c = "9" -> 9

DigitChar(d) ==
    CASE d = 0 -> "0" [] d = 1 -> "1" [] d = 2 -> "2" [] d = 3 -> "3"
      [] d = 4 -> "4" [] d = 5 -> "5" [] d = 6 -> "6" [] d = 7 -> "7"
      [] d = 8 -> "8" [] d = 9 -> "9"

\* ASCII lower-casing of one character (str.lower)
LowerChar(c) ==
    CASE c = "A" -> "a" [] c = "B" -> "b" [] c = "C" -> "c" [] c = "D" -> "d"
      [] c = "E" -> "e" [] c = "F" -> "f" [] c = "G" -> "g" [] c = "H" -> "h"
      [] c = "I" -> "i" [] c = "J" -> "j" [] c = "K" -> "k" [] c = "L" -> "l"
      [] c = "M" -> "m" [] c = "N" -> "n" [] c = "O" -> "o" [] c = "P" -> "p"
      [] c = "Q" -> "q" [] c = "R" -> "r" [] c = "S" -> "s" [] c = "T" -> "t"
      [] c = "U" -> "u" [] c = "V" -> "v" [] c = "W" -> "w" [] c = "X" -> "x"
      [] c = "Y" -> "y" [] c = "Z" -> "z" [] OTHER -> c

lower(s) == [i \in 1..Len(s) |-> LowerChar(s[i])]

RECURSIVE lstrip(_)
lstrip(s) == IF s # <<>> /\ IsSpace(Head(s)) THEN lstrip(Tail(s)) ELSE s

RECURSIVE rstrip(_)
rstrip(s) ==
    IF s # <<>> /\ IsSpace(s[Len(s)]) THEN rstrip(SubSeq(s, 1, Len(s) - 1)) ELSE s

\* str.strip()
strip(s) == rstrip(lstrip(s))

AllDigits(s) == \A i \in 1..Len(s) : IsDigit(s[i])

\* value of a run of decimal digits (0 for the empty run)
RECURSIVE DigitsVal(_)
DigitsVal(s) ==
    IF s = <<>> THEN 0
    ELSE 10 * DigitsVal(SubSeq(s, 1, Len(s) - 1)) + DigitVal(s[Len(s)])

\* decimal digits of a natural number, no padding (str(n), n >= 0)
RECURSIVE NatStr(_)
NatStr(n) ==
    IF n < 10 THEN <<DigitChar(n)>> ELSE NatStr(n \div 10) \o <<DigitChar(n % 10)>>

\* ------------------------------------------------------------------------
\* int(float(text)): the outcome is [kind |-> "int", val |-> n],
\* [kind |-> "ValueError"] or [kind |-> "OverflowError"].
\* float() accepts an optional sign, then "inf" / "infinity" / "nan" in any
\* letter case, or digits with at most one decimal point and at least one
\* digit; int() truncates toward zero, raises OverflowError on an infinity
\* and ValueError on a NaN.  Exponents and digit-group underscores are
\* outside the generated alphabet.
\* ------------------------------------------------------------------------
PointPositions(u) == {i \in 1..Len(u) : u[i] = "."}

RECURSIVE Pow10(_)
Pow10(k) == IF k = 0 THEN 1 ELSE 10 * Pow10(k - 1)

\* an unsigned decimal literal: [kind |-> "num", num, den] (the value is
\* num / den), "inf", "nan" or "ValueError"
ParseUnsigned(u) ==
    LET lu == lower(u) IN
    IF lu \in {<<"i", "n", "f">>, <<"i", "n", "f", "i", "n", "i", "t", "y">>}
        THEN [kind |-> "inf", num |-> 0, den |-> 1]
    ELSE IF lu = <<"n", "a", "n">> THEN [kind |-> "nan", num |-> 0, den |-> 1]
    ELSE IF u = <<>> THEN [kind |-> "ValueError", num |-> 0, den |-> 1]
    ELSE IF PointPositions(u) = {}
        THEN IF AllDigits(u) THEN [kind |-> "num", num |-> DigitsVal(u), den |-> 1]
             ELSE [kind |-> "ValueError", num |-> 0, den |-> 1]
    ELSE IF Cardinality(PointPositions(u)) > 1
        THEN [kind |-> "ValueError", num |-> 0, den |-> 1]
    ELSE LET p == CHOOSE i \in PointPositions(u) : TRUE
             ip == SubSeq(u, 1, p - 1)
             fp == SubSeq(u, p + 1, Len(u))
         IN IF AllDigits(ip) /\ AllDigits(fp) /\ Len(ip) + Len(fp) > 0
                THEN [kind |-> "num", num |-> DigitsVal(ip \o fp), den |-> Pow10(Len(fp))]
                ELSE [kind |-> "ValueError", num |-> 0, den |-> 1]

\* float(text) of Python, to_numeric of pandas: surrounding white space and
\* one sign allowed
ParseFloat(t) ==
    LET signed(sign, r) == IF sign = "-" THEN [r EXCEPT !.num = 0 - r.num] ELSE r
        parse(s) == IF s # <<>> /\ Head(s) \in {"-", "+"}
                        THEN signed(Head(s), ParseUnsigned(Tail(s)))
                        ELSE ParseUnsigned(s)
    IN  parse(strip(t))

\* int(x) of a finite float num / den: truncation toward zero
Trunc(num, den) == IF num >= 0 THEN num \div den ELSE 0 - ((0 - num) \div den)

IntOfFloat(t) ==
    LET int(r) ==
            CASE r.kind = "num" -> [kind |-> "int", val |-> Trunc(r.num, r.den)]
              [] r.kind = "inf" -> [kind |-> "OverflowError", val |-> 0]
              [] OTHER -> [kind |-> "ValueError", val |-> 0]
    IN  int(ParseFloat(t))

\* f"{n}": the width and the zero fill left out
FormatNoPad(n) == IF n < 0 THEN <<"-">> \o NatStr(0 - n) ELSE NatStr(n)

\* f"{n:02d}": minimum width 2, zero filled, the sign counts in the width
Format02d(n) ==
    IF n < 0 THEN <<"-">> \o NatStr(0 - n)
    ELSE IF n < 10 THEN <<"0">> \o NatStr(n)
    ELSE NatStr(n)

\* transform_icfes._normalizar_departamento
\* The outcome is NULL (None), a text, or OverflowError (raised, uncaught:
\* the except clause names only ValueError and TypeError).
_normalizar_departamento(x) ==
    IF x = NULL THEN NULL
    ELSE IF strip(x) = <<>> THEN NULL
    ELSE LET formatted(r) ==
                 CASE r.kind = "int" -> Format02d(r.val)
                   [] r.kind = "ValueError" -> NULL
                   [] r.kind = "OverflowError" -> OverflowError
         IN  formatted(IntOfFloat(strip(x)))

\* ------------------------------------------------------------------------
\* Column names and other literal texts of the source
\* ------------------------------------------------------------------------
s_anio == <<"a", "ñ", "o">>

s_periodo == <<"p", "e", "r", "i", "o", "d", "o">>

s_PERIODO == <<"P", "E", "R", "I", "O", "D", "O">>

s_estu_anoterminobachiller ==
    <<"e", "s", "t", "u", "_", "a", "n", "o", "t", "e", "r", "m", "i", "n",
      "o", "b", "a", "c", "h", "i", "l", "l", "e", "r">>

s_cole_cod_depto_ubicacion ==
    <<"c", "o", "l", "e", "_", "c", "o", "d", "_", "d", "e", "p", "t", "o",
      "_", "u", "b", "i", "c", "a", "c", "i", "o", "n">>

s_estu_cod_depto_presentacion ==
    <<"e", "s", "t", "u", "_", "c", "o", "d", "_", "d", "e", "p", "t", "o",
      "_", "p", "r", "e", "s", "e", "n", "t", "a", "c", "i", "o", "n">>

s_estu_cod_reside_depto ==
    <<"e", "s", "t", "u", "_", "c", "o", "d", "_", "r", "e", "s", "i", "d",
      "e", "_", "d", "e", "p", "t", "o">>

s_depto_normalizado ==
    <<"d", "e", "p", "t", "o", "_", "n", "o", "r", "m", "a", "l", "i", "z",
      "a", "d", "o">>

s_punt == <<"p", "u", "n", "t">>

s_depto == <<"d", "e", "p", "t", "o">>

s_departamento ==
    <<"d", "e", "p", "a", "r", "t", "a", "m", "e", "n", "t", "o">>

s_estu_areareside ==
    <<"e", "s", "t", "u", "_", "a", "r", "e", "a", "r", "e", "s", "i", "d",
      "e">>

s_cole_caracter ==
    <<"c", "o", "l", "e", "_", "c", "a", "r", "a", "c", "t", "e", "r">>

s_cole_area_ubicacion ==
    <<"c", "o", "l", "e", "_", "a", "r", "e", "a", "_", "u", "b", "i", "c",
      "a", "c", "i", "o", "n">>

s_punt_global == <<"p", "u", "n", "t", "_", "g", "l", "o", "b", "a", "l">>

s_PUNT_GLOBAL == <<"P", "U", "N", "T", "_", "G", "L", "O", "B", "A", "L">>

s_estu_genero == <<"e", "s", "t", "u", "_", "g", "e", "n", "e", "r", "o">>

s_a_o == <<"a", "_", "o">>

s_c_digo_departamento_divipola ==
    <<"c", "_", "d", "i", "g", "o", "_", "d", "e", "p", "a", "r", "t", "a",
      "m", "e", "n", "t", "o", "_", "d", "i", "v", "i", "p", "o", "l", "a">>

s_valor_miles_de_millones_de ==
    <<"v", "a", "l", "o", "r", "_", "m", "i", "l", "e", "s", "_", "d", "e",
      "_", "m", "i", "l", "l", "o", "n", "e", "s", "_", "d", "e">>

s_anio_api == <<"a", "n", "i", "o">>

s_depto_divipola ==
    <<"d", "e", "p", "t", "o", "_", "d", "i", "v", "i", "p", "o", "l", "a">>

s_valor_api_mm ==
    <<"v", "a", "l", "o", "r", "_", "a", "p", "i", "_", "m", "m">>

s_anio_pib == <<"a", "ñ", "o", "_", "p", "i", "b">>

s_depto_codigo ==
    <<"d", "e", "p", "t", "o", "_", "c", "o", "d", "i", "g", "o">>

s_pib_departamental_mm ==
    <<"p", "i", "b", "_", "d", "e", "p", "a", "r", "t", "a", "m", "e", "n",
      "t", "a", "l", "_", "m", "m">>

s_anio_merge == <<"a", "ñ", "o", "_", "m", "e", "r", "g", "e">>

s_depto_merge == <<"d", "e", "p", "t", "o", "_", "m", "e", "r", "g", "e">>

s_anio_origen == <<"a", "n", "i", "o", "_", "o", "r", "i", "g", "e", "n">>

s_cole_depto_ubicacion ==
    <<"c", "o", "l", "e", "_", "d", "e", "p", "t", "o", "_", "u", "b", "i",
      "c", "a", "c", "i", "o", "n">>

s_id == <<"i", "d">>

s_created_at == <<"c", "r", "e", "a", "t", "e", "d", "_", "a", "t">>

s_updated_at == <<"u", "p", "d", "a", "t", "e", "d", "_", "a", "t">>

s_pib == <<"p", "i", "b">>

s_nan == <<"n", "a", "n">>

s_actividad ==
    <<"a", "c", "t", "i", "v", "i", "d", "a", "d">>

s_sector ==
    <<"s", "e", "c", "t", "o", "r">>

s_tipo_de_precios ==
    <<"t", "i", "p", "o", "_", "d", "e", "_", "p", "r", "e", "c", "i", "o", "s">>

s_inf ==
    <<"i", "n", "f">>

\* ------------------------------------------------------------------------
\* Data frames: [cols |-> sequence of column labels,
\*               rows |-> sequence of rows, each a sequence of cells]
\* A cell is a text or NULL.  Labels need not be unique (pandas allows it).
\* ------------------------------------------------------------------------
Min(S) == CHOOSE m \in S : \A x \in S : m <= x

RECURSIVE SortedSeq(_)
SortedSeq(S) == IF S = {} THEN <<>> ELSE <<Min(S)>> \o SortedSeq(S \ {Min(S)})

\* `pat in s` on Python strings
Contains(pat, s) ==
    \E i \in 0..(Len(s) - Len(pat)) : SubSeq(s, i + 1, i + Len(pat)) = pat

InSeq(x, q) == \E i \in 1..Len(q) : q[i] = x

\* list(dict.fromkeys(q)): first occurrences, order kept
RECURSIVE Dedupe(_)
Dedupe(q) ==
    IF q = <<>> THEN <<>>
    ELSE LET front == SubSeq(q, 1, Len(q) - 1) IN
         IF InSeq(q[Len(q)], front) THEN Dedupe(front)
         ELSE Append(Dedupe(front), q[Len(q)])

ColPositions(df, label) == {i \in 1..Len(df.cols) : df.cols[i] = label}

HasCol(df, label) == ColPositions(df, label) # {}

\* the frame restricted to the columns at positions pos (a sequence)
ProjectPos(df, pos) ==
    [cols |-> [k \in 1..Len(pos) |-> df.cols[pos[k]]],
     rows |-> [r \in 1..Len(df.rows) |->
                 [k \in 1..Len(pos) |-> df.rows[r][pos[k]]]]]

\* df[labels]: for each label in turn, every column carrying it
RECURSIVE LabelPositions(_, _)
LabelPositions(df, labels) ==
    IF labels = <<>> THEN <<>>
    ELSE SortedSeq(ColPositions(df, Head(labels)))
             \o LabelPositions(df, Tail(labels))

SelectCols(df, labels) == ProjectPos(df, LabelPositions(df, labels))

\* df.rename(columns={old: new})
RenameCol(df, old, new) ==
    [df EXCEPT !.cols = [i \in 1..Len(df.cols) |->
                           IF df.cols[i] = old THEN new ELSE df.cols[i]]]

\* df[label] = vals (one value per row): overwrite in place, else append
AssignCol(df, label, vals) ==
    IF HasCol(df, label)
        THEN [df EXCEPT !.rows = [r \in 1..Len(df.rows) |->
                 [k \in 1..Len(df.cols) |->
                    IF df.cols[k] = label THEN vals[r] ELSE df.rows[r][k]]]]
        ELSE [cols |-> Append(df.cols, label),
              rows |-> [r \in 1..Len(df.rows) |-> Append(df.rows[r], vals[r])]]

\* the cells of the first column labelled label, one per row
ColCells(df, label) ==
    LET p == Min(ColPositions(df, label)) IN
    [r \in 1..Len(df.rows) |-> df.rows[r][p]]

\* indices of the rows kept by df.dropna(subset=labels)
DropnaKeep(df, labels) ==
    {r \in 1..Len(df.rows) :
        \A k \in 1..Len(df.cols) :
            InSeq(df.cols[k], labels) => df.rows[r][k] # NULL}

\* ------------------------------------------------------------------------
\* transform_icfes: the Consolidator
\* A source file is [stem |-> text, cols |-> header, rows |-> cells as text].
\* ------------------------------------------------------------------------
YearMin == 2015
YearMax == 2023
NoYear == 9999

\* the tokens read_csv turns into NaN (pandas defaults)
NaTokens ==
    {<<>>, <<"N", "A">>, <<"N", "a", "N">>, <<"n", "a", "n">>,
     <<"N", "/", "A">>, <<"n", "/", "a">>, <<"n", "u", "l", "l">>,
     <<"N", "U", "L", "L">>, <<"N", "o", "n", "e">>, <<"#", "N", "A">>,
     <<"#", "N", "/", "A">>, <<"-", "N", "a", "N">>, <<"-", "n", "a", "n">>,
     <<"<", "N", "A", ">">>}

\* read_csv(dtype=str).fillna(""): a missing cell becomes the empty text
ReadCell(c) == IF c \in NaTokens THEN <<>> ELSE c

\* df.columns.duplicated(): positions whose label occurred earlier
DuplicatedPos(cols) ==
    {i \in 1..Len(cols) : \E j \in 1..(i - 1) : cols[j] = cols[i]}

_read_csv_robusto(f) ==
    LET stripped == [i \in 1..Len(f.cols) |-> strip(f.cols[i])]
        keep == SortedSeq((1..Len(f.cols)) \ DuplicatedPos(stripped))
    IN  [cols |-> [k \in 1..Len(keep) |-> stripped[keep[k]]],
         rows |-> [r \in 1..Len(f.rows) |->
                     [k \in 1..Len(keep) |-> ReadCell(f.rows[r][keep[k]])]]]

\* positions where r'(20\d{2})' matches / where r'(\d{4})' matches
Match20dd(s) ==
    {i \in 1..(Len(s) - 3) :
        s[i] = "2" /\ s[i + 1] = "0" /\ IsDigit(s[i + 2]) /\ IsDigit(s[i + 3])}

Match4d(s) == {i \in 1..(Len(s) - 3) : AllDigits(SubSeq(s, i, i + 3))}

_extraer_anio_de_nombre(stem) ==
    IF Match20dd(stem) # {}
        THEN DigitsVal(SubSeq(stem, Min(Match20dd(stem)), Min(Match20dd(stem)) + 3))
    ELSE IF Match4d(stem) # {}
        THEN LET a == DigitsVal(SubSeq(stem, Min(Match4d(stem)), Min(Match4d(stem)) + 3))
             IN IF 2014 <= a /\ a <= 2025 THEN a ELSE NoYear
    ELSE NoYear

columnas_mantener_patrones ==
    <<s_punt, s_depto, s_departamento, s_estu_areareside, s_cole_caracter,
      s_cole_area_ubicacion>>

\* lines 180-185: `patron.lower() in col.lower()` for some pattern
MatchesPatternScan(col) ==
    \E i \in 1..Len(columnas_mantener_patrones) :
        Contains(lower(columnas_mantener_patrones[i]), lower(col))

\* the headers of the generated source files
HeaderFull == <<s_periodo, s_cole_cod_depto_ubicacion, s_PUNT_GLOBAL, s_estu_genero>>
HeaderBare == <<s_punt_global>>
HeaderDup == <<s_PUNT_GLOBAL, s_punt_global>>

\* the scan, worked out once for the labels the generated files can carry
KnownLabels ==
    {lower(HeaderFull[i]) : i \in 1..Len(HeaderFull)}
        \cup {lower(HeaderBare[i]) : i \in 1..Len(HeaderBare)}
        \cup {lower(HeaderDup[i]) : i \in 1..Len(HeaderDup)}
        \cup {s_anio, s_depto_normalizado}

KnownMatching == {c \in KnownLabels : MatchesPatternScan(c)}

MatchesPattern(col) ==
    IF col \in KnownLabels THEN col \in KnownMatching ELSE MatchesPatternScan(col)

\* first of the candidate labels present in the frame, or NULL
RECURSIVE FirstPresent(_, _)
FirstPresent(df, cands) ==
    IF cands = <<>> THEN NULL
    ELSE IF HasCol(df, Head(cands)) THEN Head(cands)
    ELSE FirstPresent(df, Tail(cands))

Str4(c) == SubSeq(c, 1, IF Len(c) < 4 THEN Len(c) ELSE 4)

\* lines 136-153: the year column
WithYear(df, anio) ==
    LET cut(named) ==
            IF Cardinality(ColPositions(named, s_anio)) > 1
                THEN [err |-> "AttributeError", df |-> named]
                ELSE [err |-> "none",
                      df |-> AssignCol(named, s_anio,
                                [r \in 1..Len(named.rows) |->
                                    Str4(ColCells(named, s_anio)[r])])]
        rename(year_col) ==
            cut(IF year_col # NULL THEN RenameCol(df, year_col, s_anio)
                ELSE AssignCol(df, s_anio, [r \in 1..Len(df.rows) |-> NatStr(anio)]))
    IN  rename(FirstPresent(df, <<s_periodo, s_PERIODO, s_estu_anoterminobachiller>>))

\* lines 155-170: lower-case the labels, add depto_normalizado
WithDepto(df0) ==
    LET assign(df, vals) ==
            IF \E r \in 1..Len(df.rows) : vals[r] = OverflowError
                THEN [err |-> "OverflowError", df |-> df]
                ELSE [err |-> "none", df |-> AssignCol(df, s_depto_normalizado, vals)]
        normalize(df, depto_col) ==
            IF depto_col = NULL THEN [err |-> "none", df |-> df]
            ELSE IF Cardinality(ColPositions(df, depto_col)) > 1
                THEN [err |-> "ValueError", df |-> df]
            ELSE assign(df, [r \in 1..Len(df.rows) |->
                               _normalizar_departamento(ColCells(df, depto_col)[r])])
        lowered(df) ==
            normalize(df, FirstPresent(df, <<s_cole_cod_depto_ubicacion,
                                             s_estu_cod_depto_presentacion,
                                             s_estu_cod_reside_depto>>))
    IN  lowered([df0 EXCEPT !.cols = [i \in 1..Len(df0.cols) |-> lower(df0.cols[i])]])

\* lines 172-188: the labels kept
columnas_seleccionadas(df) ==
    LET matched == SortedSeq({i \in 1..Len(df.cols) : MatchesPattern(df.cols[i])})
    IN  Dedupe(<<s_anio>>
               \o (IF HasCol(df, s_depto_normalizado) THEN <<s_depto_normalizado>> ELSE <<>>)
               \o [k \in 1..Len(matched) |-> df.cols[matched[k]]])

cols_criticas(df) ==
    <<s_anio>> \o (IF HasCol(df, s_depto_normalizado) THEN <<s_depto_normalizado>> ELSE <<>>)

\* One iteration of the loop of run, lines 133-209, up to the write:
\* [err, df: the frame to write, src: the source row of each of its rows,
\*  ncols: len(columnas_seleccionadas)]
ProcessFile(f, anio) ==
    LET kept(sel, keep, ncols) ==
            [err |-> "none",
             df |-> [cols |-> sel.cols,
                     rows |-> [k \in 1..Len(keep) |-> sel.rows[keep[k]]]],
             src |-> keep,
             ncols |-> ncols]
        dropna(sel, ncols) ==
            kept(sel, SortedSeq(DropnaKeep(sel, cols_criticas(sel))), ncols)
        selected(df, cols) == dropna(SelectCols(df, cols), Len(cols))
        with_depto(d) ==
            IF d.err # "none"
                THEN [err |-> d.err, df |-> d.df, src |-> <<>>, ncols |-> 0]
                ELSE selected(d.df, columnas_seleccionadas(d.df))
        with_year(y) ==
            IF y.err # "none"
                THEN [err |-> y.err, df |-> y.df, src |-> <<>>, ncols |-> 0]
                ELSE with_depto(WithDepto(y.df))
    IN  with_year(WithYear(_read_csv_robusto(f), anio))

\* line 109: the files whose name-year is inside the window, in input order,
\* each with its position in the input
csvs_con_anio(csvs) ==
    LET ok == SortedSeq({i \in 1..Len(csvs) :
                   /\ YearMin <= _extraer_anio_de_nombre(csvs[i].stem)
                   /\ _extraer_anio_de_nombre(csvs[i].stem) <= YearMax})
    IN  [k \in 1..Len(ok) |->
            [idx |-> ok[k], anio |-> _extraer_anio_de_nombre(csvs[ok[k]].stem)]]

\* the list left as it is (the sort forgotten)
SortByYearNone(q) == q

RECURSIVE InsertByYear(_, _)
InsertByYear(sorted, x) ==
    IF sorted = <<>> THEN <<x>>
    ELSE IF x.anio < sorted[Len(sorted)].anio
        THEN Append(InsertByYear(SubSeq(sorted, 1, Len(sorted) - 1), x),
                    sorted[Len(sorted)])
        ELSE Append(sorted, x)

\* line 110: list.sort(key=year), a stable sort
RECURSIVE SortByYear(_)
SortByYear(q) ==
    IF q = <<>> THEN <<>>
    ELSE InsertByYear(SortByYear(SubSeq(q, 1, Len(q) - 1)), q[Len(q)])

NoFile == [exists |-> FALSE, header |-> <<>>, rows |-> <<>>]

\* The state of the loop of run is [out: the output file, src: history of
\* its rows, total: total_filas, primera: primera_iteracion, err, ncols].

\* the frame written in mode 'w' whatever primera_iteracion says
WriteStepOverwrite(st, r, idx) ==
    [out |-> [exists |-> TRUE, header |-> r.df.cols, rows |-> r.df.rows],
     src |-> [i \in 1..Len(r.src) |-> <<idx, r.src[i]>>],
     total |-> st.total + Len(r.df.rows),
     primera |-> FALSE,
     err |-> "none",
     ncols |-> r.ncols]

\* lines 211-218: the frame r.df of file idx written, with the header when
\* it is the first, appended without it otherwise
WriteStep(st, r, idx) ==
    [out |-> IF st.primera
                THEN [exists |-> TRUE, header |-> r.df.cols, rows |-> r.df.rows]
                ELSE [st.out EXCEPT !.rows = @ \o r.df.rows],
     src |-> IF st.primera
                THEN [i \in 1..Len(r.src) |-> <<idx, r.src[i]>>]
                ELSE st.src \o [i \in 1..Len(r.src) |-> <<idx, r.src[i]>>],
     total |-> st.total + Len(r.df.rows),
     primera |-> FALSE,
     err |-> "none",
     ncols |-> r.ncols]

\* lines 130-224: the loop over the accepted files; an exception ends the
\* loop and leaves what was written so far
RECURSIVE WriteLoop(_, _, _, _)
WriteLoop(csvs, todo, k, st) ==
    IF k > Len(todo) THEN st
    ELSE LET next(r) ==
                 IF r.err # "none" THEN [st EXCEPT !.err = r.err]
                 ELSE WriteLoop(csvs, todo, k + 1, WriteStep(st, r, todo[k].idx))
         IN  next(ProcessFile(csvs[todo[k].idx], todo[k].anio))

IcfesResult(status, error, rows, columns, procesados, anios) ==
    [status |-> status, error |-> error, rows |-> rows, columns |-> columns,
     archivos_procesados |-> procesados, anios |-> anios]

NoResult == IcfesResult("none", "none", 0, 0, 0, <<>>)

\* lines 127-128: the loop state before the first file
LoopStart(out, src) ==
    [out |-> out, src |-> src, total |-> 0, primera |-> TRUE, err |-> "none",
     ncols |-> 0]

\* lines 250-256: what run returns (or raises) after the loop
AfterLoop(todo, st) ==
    [out |-> st.out, src |-> st.src,
     res |-> IF st.err # "none"
               THEN IcfesResult("error", st.err, 0, 0, 0, <<>>)
               ELSE IcfesResult("ok", "none", st.total, st.ncols, Len(todo),
                        [k \in 1..Len(todo) |-> todo[k].anio])]

\* the output opened before the accepted files are looked for (a misplaced
\* guard)
transform_icfes_lateguard(csvs, out, src) ==
    LET run(todo) ==
            IF csvs = <<>> \/ todo = <<>>
                THEN [out |-> [exists |-> TRUE, header |-> <<s_anio>>, rows |-> <<>>],
                      src |-> <<>>,
                      res |-> IcfesResult("error", "FileNotFoundError", 0, 0, 0, <<>>)]
                ELSE AfterLoop(todo, WriteLoop(csvs, todo, 1, LoopStart(out, src)))
    IN  run(SortByYear(csvs_con_anio(csvs)))

\* transform_icfes.run(raw_csvs) on an output file out with row history src:
\* [out, src, res]
transform_icfes(csvs, out, src) ==
    LET run(todo) ==
            IF csvs = <<>> \/ todo = <<>>
                THEN [out |-> out, src |-> src,
                      res |-> IcfesResult("error", "FileNotFoundError", 0, 0, 0, <<>>)]
                ELSE AfterLoop(todo, WriteLoop(csvs, todo, 1, LoopStart(out, src)))
    IN  run(SortByYear(csvs_con_anio(csvs)))

\* ------------------------------------------------------------------------
\* Numbers: a float cell is <<"num", n, d>>, the value n / d in lowest
\* terms (binary rounding is not modelled)
\* ------------------------------------------------------------------------
Abs(n) == IF n < 0 THEN 0 - n ELSE n

RECURSIVE GCD(_, _)
GCD(a, b) == IF b = 0 THEN a ELSE GCD(b, a % b)

Num(n, d) == LET g == GCD(Abs(n), d) IN <<"num", n \div g, d \div g>>

IsNum(v) == Len(v) = 3 /\ v[1] = "num"

NumAdd(a, b) == Num(a[2] * b[3] + b[2] * a[3], a[3] * b[3])

\* str(n) of an integer
IntStr(n) == IF n < 0 THEN <<"-">> \o NatStr(0 - n) ELSE NatStr(n)

\* repr of a float n / d: the integer part, the point and the decimals (at
\* least one, at most SigDigits: the shortest text that reads back as the
\* same float has no more)
SigDigits == 17

RECURSIVE FracDigits(_, _, _)
FracDigits(rem, d, k) ==
    IF rem = 0 \/ k = 0 THEN <<>>
    ELSE <<DigitChar((rem * 10) \div d)>> \o FracDigits((rem * 10) % d, d, k - 1)

FormatFloat(v) ==
    IF v = <<"inf">> THEN s_inf
    ELSE LET a == Abs(v[2])
             ip == a \div v[3]
             rem == a % v[3]
         IN  (IF v[2] < 0 THEN <<"-">> ELSE <<>>) \o NatStr(ip) \o <<".">>
                 \o (IF rem = 0 THEN <<"0">> ELSE FracDigits(rem, v[3], SigDigits))

\* ------------------------------------------------------------------------
\* transform_api: the Lookup Normalizer
\* The raw file is [cols |-> header, rows |-> cells as text].
\* ------------------------------------------------------------------------
RENAME_MAP ==
    << <<s_a_o, s_anio_api>>,
       <<s_actividad, s_actividad>>,
       <<s_sector, s_sector>>,
       <<s_tipo_de_precios, s_tipo_de_precios>>,
       <<s_c_digo_departamento_divipola, s_depto_divipola>>,
       <<s_departamento, s_departamento>>,
       <<s_valor_miles_de_millones_de, s_valor_api_mm>> >>

RECURSIVE FilterChars(_, _)
FilterChars(t, keep) ==
    IF t = <<>> THEN <<>>
    ELSE IF Head(t) \in keep THEN <<Head(t)>> \o FilterChars(Tail(t), keep)
    ELSE FilterChars(Tail(t), keep)

\* lines 30-39: drop every character but digits, '-', ',' and '.', turn the
\* commas into points, then pd.to_numeric(errors="coerce")
_safe_numeric(cell) ==
    LET numeric(r) == IF r.kind = "num" THEN Num(r.num, r.den) ELSE NULL
        dotted(kept) ==
            [i \in 1..Len(kept) |-> IF kept[i] = "," THEN "." ELSE kept[i]]
    IN  numeric(ParseFloat(dotted(FilterChars(cell, DigitChars \cup {"-", ",", "."}))))

\* .astype("Int64") of a float column.  A value with a fraction is cut to
\* its integer part by the nullable-array cast and refused with TypeError by
\* the cast from a NumPy float array: cast says which one the build does.
ToInt64(v, cast) ==
    IF v = NULL THEN NULL
    ELSE IF v[3] = 1 THEN v
    ELSE IF cast = "trunc" THEN Num(Trunc(v[2], v[3]), 1)
    ELSE <<"TypeError">>

\* line 60-62
RECURSIVE ApplyRenames(_, _)
ApplyRenames(df, k) ==
    IF k > Len(RENAME_MAP) THEN df
    ELSE IF HasCol(df, RENAME_MAP[k][1]) /\ ~HasCol(df, RENAME_MAP[k][2])
        THEN ApplyRenames(RenameCol(df, RENAME_MAP[k][1], RENAME_MAP[k][2]), k + 1)
        ELSE ApplyRenames(df, k + 1)

\* lines 73-75: df[label] = _safe_numeric(df[label]), cast to Int64 for the
\* key columns
WithNumeric(df, label) ==
    AssignCol(df, label,
        [r \in 1..Len(df.rows) |-> _safe_numeric(ColCells(df, label)[r])])

WithInt64(df, label, cast) ==
    AssignCol(df, label,
        [r \in 1..Len(df.rows) |->
            ToInt64(_safe_numeric(ColCells(df, label)[r]), cast)])

KeepRows(df, keep) ==
    [cols |-> df.cols, rows |-> [k \in 1..Len(keep) |-> df.rows[keep[k]]]]

\* the (anio, depto) keys of the frame in ascending order (groupby sorts)
KeyLess(a, b) == a[1] < b[1] \/ (a[1] = b[1] /\ a[2] < b[2])

RECURSIVE SortKeys(_)
SortKeys(K) ==
    IF K = {} THEN <<>>
    ELSE LET m == CHOOSE x \in K : \A y \in K : x = y \/ KeyLess(x, y)
         IN  <<m>> \o SortKeys(K \ {m})

\* the first value of the group taken for its sum
SumNumsFirst(q) == IF q = <<>> THEN Num(0, 1) ELSE Head(q)

RECURSIVE SumNums(_)
SumNums(q) == IF q = <<>> THEN Num(0, 1) ELSE NumAdd(Head(q), SumNums(Tail(q)))

\* next((x for x in s if str(x).strip() != ""), "")
RECURSIVE FirstNonBlank(_)
FirstNonBlank(q) ==
    IF q = <<>> THEN <<>>
    ELSE IF strip(Head(q)) # <<>> THEN Head(q)
    ELSE FirstNonBlank(Tail(q))

\* every row kept as a group of its own (the aggregation left out)
GroupRowsNone(df) ==
    LET a == ColCells(df, s_anio_api)
        d == ColCells(df, s_depto_divipola)
        v == ColCells(df, s_valor_api_mm)
        n == ColCells(df, s_departamento)
    IN  [r \in 1..Len(df.rows) |-> <<IntStr(a[r][2]), IntStr(d[r][2]), n[r], FormatFloat(v[r])>>]

\* lines 90-100: one row per (anio, depto_divipola): the sum of the values
\* and the first non-blank name, written as the cells of the CSV
GroupRows(df) ==
    LET a == ColCells(df, s_anio_api)
        d == ColCells(df, s_depto_divipola)
        v == ColCells(df, s_valor_api_mm)
        n == ColCells(df, s_departamento)
        keys == SortKeys({<<a[r][2], d[r][2]>> : r \in 1..Len(df.rows)})
        members(k) == SortedSeq({r \in 1..Len(df.rows) : <<a[r][2], d[r][2]>> = k})
    IN  [i \in 1..Len(keys) |->
            <<IntStr(keys[i][1]), IntStr(keys[i][2]),
              FirstNonBlank([j \in 1..Len(members(keys[i])) |-> n[members(keys[i])[j]]]),
              FormatFloat(SumNums([j \in 1..Len(members(keys[i])) |->
                                      v[members(keys[i])[j]]]))>>]

ApiResult(status, error) == [status |-> status, error |-> error]

\* transform_api.run(raw_csv): [out: the file written or NoFile, res]
transform_api(raw, cast) ==
    LET fail(e) == [out |-> NoFile, res |-> ApiResult("error", e)]
        \* lines 87-101
        grouped(df) ==
            [out |-> [exists |-> TRUE,
                      header |-> <<s_anio_api, s_depto_divipola,
                                   s_departamento, s_valor_api_mm>>,
                      rows |-> GroupRows(df)],
             res |-> ApiResult("ok", "none")]
        \* lines 80-88
        cleaned(df) ==
            IF Len(df.rows) = 0 THEN fail("RuntimeError")
            ELSE grouped(IF HasCol(df, s_departamento) THEN df
                         ELSE AssignCol(df, s_departamento,
                                  [r \in 1..Len(df.rows) |-> <<>>]))
        \* lines 73-79
        typed(df) ==
            IF \E r \in 1..Len(df.rows) :
                   \/ ColCells(df, s_anio_api)[r] = <<"TypeError">>
                   \/ ColCells(df, s_depto_divipola)[r] = <<"TypeError">>
                THEN fail("TypeError")
                ELSE cleaned(KeepRows(df, SortedSeq(DropnaKeep(df,
                         <<s_anio_api, s_depto_divipola, s_valor_api_mm>>))))
        \* lines 65-75
        renamed(df) ==
            IF ~(HasCol(df, s_anio_api) /\ HasCol(df, s_depto_divipola)
                    /\ HasCol(df, s_valor_api_mm))
                THEN fail("RuntimeError")
                ELSE typed(WithNumeric(WithInt64(WithInt64(df, s_anio_api, cast),
                                                 s_depto_divipola, cast),
                                       s_valor_api_mm))
    IN  \* lines 56-62
        renamed(ApplyRenames(
            [cols |-> raw.cols,
             rows |-> [r \in 1..Len(raw.rows) |->
                         [k \in 1..Len(raw.cols) |-> ReadCell(raw.rows[r][k])]]],
            1))

\* ------------------------------------------------------------------------
\* merge: the Join & Imputation stage
\* Frames hold texts, NULL for NaN and, in the value column, numbers.  The
\* labels of the lookup file and of the consolidated file are disjoint for
\* the files generated here, so the join adds no _x / _y suffix.
\* ------------------------------------------------------------------------
chunk_size == 1      \* rows per batch (50000 at merge.py:75, scaled down)

\* read_csv(dtype=str): a missing cell is NaN
ReadCellNaN(c) == IF c \in NaTokens THEN NULL ELSE c

ReadFrame(f) ==
    [cols |-> f.header,
     rows |-> [r \in 1..Len(f.rows) |->
                 [k \in 1..Len(f.header) |-> ReadCellNaN(f.rows[r][k])]]]

\* pd.to_numeric(errors='coerce') of one cell
to_numeric(c) ==
    IF c = NULL THEN NULL
    ELSE LET numeric(r) ==
                 CASE r.kind = "num" -> Num(r.num, r.den)
                   [] r.kind = "inf" -> <<"inf">>
                   [] OTHER -> NULL
         IN  numeric(ParseFloat(c))

\* lines 52-62: the lookup table held in memory
load_pib(pib) ==
    LET df == ReadFrame(pib) IN
    RenameCol(RenameCol(AssignCol(df, s_valor_api_mm,
                            [r \in 1..Len(df.rows) |->
                                to_numeric(ColCells(df, s_valor_api_mm)[r])]),
                        s_anio_api, s_anio_pib),
              s_depto_divipola, s_depto_codigo)

\* Series.astype(str) of one cell
astype_str(c) == IF c = NULL THEN s_nan ELSE c

\* the slices read_csv(chunksize=chunk_size) yields: a file with a header
\* and no rows yields one empty frame
RECURSIVE Chunks(_, _)
Chunks(first, last) ==
    IF first > last THEN <<>>
    ELSE <<[first |-> first,
            last |-> IF first + chunk_size - 1 < last
                         THEN first + chunk_size - 1 ELSE last]>>
             \o Chunks(first + chunk_size, last)

ChunksOf(n) == IF n = 0 THEN <<[first |-> 1, last |-> 0]>> ELSE Chunks(1, n)

\* lines 89-95: the first fallback label renamed to 'año'
WithYearFallback(chunk) ==
    IF HasCol(chunk, s_anio) THEN chunk
    ELSE LET c == FirstPresent(chunk, <<s_periodo, s_estu_anoterminobachiller,
                                        s_anio_origen>>)
         IN  IF c = NULL THEN chunk ELSE RenameCol(chunk, c, s_anio)

\* the first column taken when no region column is found
depto_col_any(chunk) ==
    IF HasCol(chunk, s_depto_normalizado) THEN s_depto_normalizado
    ELSE chunk.cols[1]

\* lines 101-110: the label of the region column, or NULL
depto_col_of(chunk) ==
    IF HasCol(chunk, s_depto_normalizado) THEN s_depto_normalizado
    ELSE FirstPresent(chunk, <<s_cole_cod_depto_ubicacion,
                               s_estu_cod_depto_presentacion,
                               s_cole_depto_ubicacion>>)

\* lines 126-131: the left join.  For each row of the batch in turn, one
\* joined row per lookup row with equal keys (in lookup order), or one row
\* with an empty right side.  [rows, src: the batch row of each joined row]
MatchesOf(df_pib, am, dm) ==
    SortedSeq({j \in 1..Len(df_pib.rows) :
                 /\ ColCells(df_pib, s_anio_pib)[j] = am
                 /\ ColCells(df_pib, s_depto_codigo)[j] = dm})

RECURSIVE LeftJoin(_, _, _)
LeftJoin(chunk, df_pib, r) ==
    IF r > Len(chunk.rows) THEN [rows |-> <<>>, src |-> <<>>]
    ELSE LET m == MatchesOf(df_pib, ColCells(chunk, s_anio_merge)[r],
                            ColCells(chunk, s_depto_merge)[r])
             rest == LeftJoin(chunk, df_pib, r + 1)
         IN  IF m = <<>>
                 THEN [rows |-> <<chunk.rows[r]
                                    \o [k \in 1..Len(df_pib.cols) |-> NULL]>>
                                  \o rest.rows,
                       src |-> <<r>> \o rest.src]
                 ELSE [rows |-> [j \in 1..Len(m) |->
                                    chunk.rows[r] \o df_pib.rows[m[j]]]
                                  \o rest.rows,
                       src |-> [j \in 1..Len(m) |-> r] \o rest.src]

\* Series.notna().sum()
CountNotNull(cells) == Cardinality({r \in 1..Len(cells) : cells[r] # NULL})

\* the mean of the numbers of q that are not NaN; NaN when there is none
MeanOf(q) ==
    LET idx == SortedSeq({i \in 1..Len(q) : q[i] # NULL})
        vals == [k \in 1..Len(idx) |-> q[idx[k]]]
    IN  IF idx = <<>> THEN NULL
        ELSE IF \E k \in 1..Len(vals) : vals[k] = <<"inf">> THEN <<"inf">>
        ELSE LET s == SumNums(vals) IN Num(s[2], s[3] * Len(vals))

\* the imputation left out
imputar_none(df) == df

\* every missing value filled with 0
imputar_zero(df) ==
    IF ~HasCol(df, s_pib_departamental_mm) THEN df
    ELSE AssignCol(df, s_pib_departamental_mm,
             [r \in 1..Len(df.rows) |->
                 IF ColCells(df, s_pib_departamental_mm)[r] = NULL
                     THEN Num(0, 1)
                     ELSE ColCells(df, s_pib_departamental_mm)[r]])

\* lines 151-167: a row without a value takes the mean of the rows of the
\* batch with its (año, depto_normalizado); rows with a NaN key are in no
\* group
imputar(df) ==
    IF ~HasCol(df, s_pib_departamental_mm) THEN df
    ELSE LET v == ColCells(df, s_pib_departamental_mm) IN
    IF ~(CountNotNull(v) < Len(v) /\ HasCol(df, s_depto_normalizado)) THEN df
    ELSE LET a == ColCells(df, s_anio)
             d == ColCells(df, s_depto_normalizado)
             group(r) == SortedSeq({x \in 1..Len(df.rows) :
                                      a[x] = a[r] /\ d[x] = d[r]})
         IN  AssignCol(df, s_pib_departamental_mm,
                 [r \in 1..Len(df.rows) |->
                     IF v[r] = NULL /\ a[r] # NULL /\ d[r] # NULL
                         THEN MeanOf([k \in 1..Len(group(r)) |-> v[group(r)[k]]])
                         ELSE v[r]])

\* to_csv of one cell: NaN is the empty field, a float its repr
WriteCell(c) ==
    IF c = NULL THEN <<>>
    ELSE IF IsNum(c) \/ c = <<"inf">> THEN FormatFloat(c)
    ELSE c

\* lines 84-173: one batch up to the write.  [err, df: the frame to write,
\* src: the batch row of each of its rows, pre: the value of each of its
\* rows before the imputation, con_pib]
ProcessChunk(chunk0, df_pib) ==
    LET fail(e) ==
            [err |-> e, df |-> chunk0, src |-> <<>>, pre |-> <<>>, con_pib |-> 0]
        \* lines 138-167
        counted(chunk_merged, src) ==
            IF ~HasCol(chunk_merged, s_pib_departamental_mm) THEN fail("KeyError")
            ELSE [err |-> "none",
                  df |-> imputar(ProjectPos(chunk_merged,
                            SortedSeq({k \in 1..Len(chunk_merged.cols) :
                                chunk_merged.cols[k] \notin
                                    {s_anio_merge, s_depto_merge, s_anio_pib,
                                     s_depto_codigo}}))),
                  src |-> src,
                  pre |-> ColCells(chunk_merged, s_pib_departamental_mm),
                  con_pib |-> CountNotNull(
                                  ColCells(chunk_merged, s_pib_departamental_mm))]
        \* lines 134-135
        renamed(joined, src) ==
            counted(IF HasCol(joined, s_valor_api_mm)
                        THEN RenameCol(joined, s_valor_api_mm, s_pib_departamental_mm)
                        ELSE joined,
                    src)
        \* lines 126-131
        joined(chunk, j) ==
            renamed([cols |-> chunk.cols \o df_pib.cols, rows |-> j.rows], j.src)
        keyed(chunk) == joined(chunk, LeftJoin(chunk, df_pib, 1))
        \* lines 97-120
        with_keys(chunk, depto_col) ==
            IF ~HasCol(chunk, s_anio) THEN fail("RuntimeError")
            ELSE IF depto_col = NULL THEN fail("RuntimeError")
            ELSE IF ~(HasCol(df_pib, s_anio_pib) /\ HasCol(df_pib, s_depto_codigo))
                THEN fail("KeyError")
            ELSE keyed(AssignCol(
                           AssignCol(chunk, s_anio_merge,
                               [r \in 1..Len(chunk.rows) |->
                                   astype_str(ColCells(chunk, s_anio)[r])]),
                           s_depto_merge,
                           [r \in 1..Len(chunk.rows) |->
                               astype_str(ColCells(chunk, depto_col)[r])]))
        with_year(chunk) == with_keys(chunk, depto_col_of(chunk))
    IN  \* lines 84-95
        with_year(WithYearFallback(
            [chunk0 EXCEPT !.cols =
                [i \in 1..Len(chunk0.cols) |-> lower(chunk0.cols[i])]]))

\* the frame of one batch written: [rows: the cells, header]
WrittenChunk(p) ==
    [r \in 1..Len(p.df.rows) |->
        [c \in 1..Len(p.df.cols) |-> WriteCell(p.df.rows[r][c])]]

\* lines 176-182 with the counters of lines 139 and 182: the state of the
\* loop after the batch starting at row first is written
ChunkStep(st, p, first) ==
    [out |-> IF st.primera
                THEN [exists |-> TRUE, header |-> p.df.cols, rows |-> WrittenChunk(p)]
                ELSE [st.out EXCEPT !.rows = @ \o WrittenChunk(p)],
     src |-> IF st.primera
                THEN [i \in 1..Len(p.src) |-> first + p.src[i] - 1]
                ELSE st.src \o [i \in 1..Len(p.src) |-> first + p.src[i] - 1],
     pre |-> IF st.primera THEN p.pre ELSE st.pre \o p.pre,
     total |-> st.total + Len(p.df.rows),
     con |-> st.con + p.con_pib,
     primera |-> FALSE,
     err |-> "none"]

\* lines 80-188: the loop over the batches.  st is [out, src: for each
\* written row the row of the consolidated file it comes from, pre, total:
\* total_procesado, con: total_con_pib, primera: primera_iteracion, err]
RECURSIVE ChunkLoop(_, _, _, _, _)
ChunkLoop(icfes, df_pib, todo, k, st) ==
    IF k > Len(todo) THEN st
    ELSE LET next(p) ==
                 IF p.err # "none" THEN [st EXCEPT !.err = p.err]
                 ELSE ChunkLoop(icfes, df_pib, todo, k + 1,
                                ChunkStep(st, p, todo[k].first))
         IN  next(ProcessChunk(
                 [cols |-> icfes.cols,
                  rows |-> SubSeq(icfes.rows, todo[k].first, todo[k].last)],
                 df_pib))

\* the coverage returned as a percentage
pib_coverage_pct(total_con_pib, total_procesado) ==
    IF total_procesado > 0 THEN Num(100 * total_con_pib, total_procesado)
    ELSE Num(0, 1)

\* line 202
pib_coverage(total_con_pib, total_procesado) ==
    IF total_procesado > 0 THEN Num(total_con_pib, total_procesado)
    ELSE Num(0, 1)

MergeResult(status, error, total, con) ==
    [status |-> status, error |-> error, total_rows |-> total,
     rows_with_pib |-> con, rows_without_pib |-> total - con,
     pib_coverage |-> pib_coverage(con, total)]

NoMergeResult == MergeResult("none", "none", 0, 0)

\* merge.run(icfes_merged_csv, pib_by_depto_csv, out_csv): [out: the output
\* file afterwards, src, res]; out and src are the file as it was and its
\* history
merge(icfes_file, pib_file, out, src) ==
    LET after(st) ==
            [out |-> st.out, src |-> st.src, pre |-> st.pre,
             res |-> IF st.err # "none" THEN MergeResult("error", st.err, 0, 0)
                     ELSE MergeResult("ok", "none", st.total, st.con)]
        loop(icfes) ==
            after(ChunkLoop(icfes, load_pib(pib_file), ChunksOf(Len(icfes.rows)), 1,
                      [out |-> out, src |-> src, pre |-> <<>>, total |-> 0,
                       con |-> 0, primera |-> TRUE, err |-> "none"]))
    IN  IF ~icfes_file.exists \/ ~pib_file.exists
            THEN [out |-> out, src |-> src, pre |-> <<>>,
                  res |-> MergeResult("error", "FileNotFoundError", 0, 0)]
        ELSE IF ~InSeq(s_valor_api_mm, pib_file.header)
            THEN [out |-> out, src |-> src, pre |-> <<>>,
                  res |-> MergeResult("error", "KeyError", 0, 0)]
        ELSE loop(ReadFrame(icfes_file))

\* ------------------------------------------------------------------------
\* load_dw: the Bulk Loader
\* The table is [exists, columns: its column definitions in ordinal order,
\* rows: a cell per column (NULL for SQL NULL), seq: the last value drawn
\* from the sequence of its BIGSERIAL column].
\* ------------------------------------------------------------------------
NoTable == [exists |-> FALSE, columns |-> <<>>, rows |-> <<>>, seq |-> 0]

SetOf(q) == {q[i] : i \in 1..Len(q)}

\* the text a timestamp column shows for now()
s_now == <<"n", "o", "w">>

ColumnDef(name, type, nullable, default) ==
    [name |-> name, type |-> type, nullable |-> nullable, default |-> default]

\* the columns of CREATE TABLE without the id and created_at columns
_ddl_bare(columns) ==
    [k \in 1..Len(columns) |-> ColumnDef(columns[k], "TEXT", TRUE, "none")]

\* lines 19-40: the columns of the CREATE TABLE statement
_ddl(columns) ==
    <<ColumnDef(s_id, "BIGSERIAL", FALSE, "nextval")>>
        \o [k \in 1..Len(columns) |-> ColumnDef(columns[k], "TEXT", TRUE, "none")]
        \o <<ColumnDef(s_created_at, "TIMESTAMP", TRUE, "now")>>

\* lines 202-209: the column names of the table, none when it does not exist
existing_cols(tbl) ==
    IF tbl.exists THEN [k \in 1..Len(tbl.columns) |-> tbl.columns[k].name]
    ELSE <<>>

\* the columns compared as lists, the loader's own columns left out
same_columns_ordered(existing, csv_columns) ==
    SelectSeq(existing, LAMBDA c : c \notin {s_id, s_created_at}) = csv_columns

\* line 213: the comparison that keeps the table
same_columns(existing, csv_columns) ==
    SetOf(existing) \ {s_id, s_created_at, s_updated_at} = SetOf(csv_columns)

\* lines 211-218: a table with other columns is dropped
drop_if_different(tbl, csv_columns) ==
    IF existing_cols(tbl) # <<>> /\ ~same_columns(existing_cols(tbl), csv_columns)
        THEN NoTable
        ELSE tbl

\* lines 220-222: CREATE TABLE IF NOT EXISTS
create_if_not_exists(tbl, csv_columns) ==
    IF tbl.exists THEN tbl
    ELSE [exists |-> TRUE, columns |-> _ddl(csv_columns), rows |-> <<>>, seq |-> 0]

\* the table emptied whatever the flag
truncate_always(tbl, replace) == [tbl EXCEPT !.rows = <<>>, !.seq = 0]

\* lines 226-229: TRUNCATE TABLE ... RESTART IDENTITY when replace is set
truncate(tbl, replace) ==
    IF replace THEN [tbl EXCEPT !.rows = <<>>, !.seq = 0] ELSE tbl

\* COPY ... WITH (FORMAT CSV): an unquoted empty field is NULL
CopyCell(c) == IF c = <<>> THEN NULL ELSE c

\* the cell of a column the COPY column list does not name: its default
DefaultCell(col, n) ==
    CASE col.default = "nextval" -> IntStr(n)
      [] col.default = "now" -> s_now
      [] OTHER -> NULL

\* lines 239-248: the rows of the file appended, each cell under the table
\* column of its header label, the other columns by their defaults
copy_expert(tbl, csv) ==
    LET pos(c) == Min({k \in 1..Len(csv.header) : csv.header[k] = tbl.columns[c].name})
        cell(r, c) ==
            IF InSeq(tbl.columns[c].name, csv.header)
                THEN CopyCell(csv.rows[r][pos(c)])
                ELSE DefaultCell(tbl.columns[c], tbl.seq + r)
    IN  [tbl EXCEPT
            !.rows = @ \o [r \in 1..Len(csv.rows) |->
                              [c \in 1..Len(tbl.columns) |-> cell(r, c)]],
            !.seq = @ + Len(csv.rows)]

\* the position of the column named col
ColumnPos(tbl, col) == Min({k \in 1..Len(tbl.columns) : tbl.columns[k].name = col})

\* SELECT COUNT(*) ... WHERE col IS NOT NULL AND col != ''
CountFilled(tbl, col) ==
    Cardinality({r \in 1..Len(tbl.rows) :
                    tbl.rows[r][ColumnPos(tbl, col)] \notin {NULL, <<>>}})

\* SELECT COUNT(DISTINCT col) ... WHERE col IS NOT NULL AND col != ''
CountDistinct(tbl, col) ==
    Cardinality({tbl.rows[r][ColumnPos(tbl, col)] : r \in 1..Len(tbl.rows)}
                    \ {NULL, <<>>})

\* line 301
load_pib_coverage(rows_with_pib, loaded_rows) ==
    IF loaded_rows > 0 THEN Num(rows_with_pib, loaded_rows) ELSE Num(0, 1)

LoadResult(status, error, rows_loaded, rows_with_pib, cov, years, deptos, ncols) ==
    [status |-> status, error |-> error, rows_loaded |-> rows_loaded,
     rows_with_pib |-> rows_with_pib, pib_coverage |-> cov,
     unique_years |-> years, unique_deptos |-> deptos, total_columns |-> ncols]

NoLoadResult == LoadResult("none", "none", 0, 0, Num(0, 1), 0, 0, 0)

\* lines 251-324: the counts over the loaded table and the returned dict
load_stats(csv_columns, tbl) ==
    LET year_col == FirstPresent([cols |-> csv_columns],
                                 <<s_anio, s_anio_api, s_periodo>>)
        depto_col == FirstPresent([cols |-> csv_columns],
                                  <<s_cole_cod_depto_ubicacion,
                                    s_estu_cod_depto_presentacion,
                                    s_departamento>>)
        pib_col == FirstPresent([cols |-> csv_columns],
                                <<s_pib_departamental_mm, s_valor_api_mm, s_pib>>)
        result(loaded_rows, rows_with_pib) ==
            LoadResult("ok", "none", loaded_rows, rows_with_pib,
                IF pib_col = NULL THEN Num(0, 1)
                ELSE load_pib_coverage(rows_with_pib, loaded_rows),
                IF year_col = NULL THEN 0 ELSE CountDistinct(tbl, year_col),
                IF depto_col = NULL THEN 0 ELSE CountDistinct(tbl, depto_col),
                Len(csv_columns))
    IN  [tabla |-> tbl,
         res |-> result(Len(tbl.rows),
                        IF pib_col = NULL THEN 0 ELSE CountFilled(tbl, pib_col))]

\* load_dw.run(path, table, conn_uri, replace) with a reachable database:
\* [tabla: the table afterwards, res]
load_dw(csv, tbl, replace) ==
    IF ~csv.exists
        THEN [tabla |-> tbl,
              res |-> LoadResult("error", "FileNotFoundError", 0, 0, Num(0, 1), 0, 0, 0)]
    ELSE load_stats(csv.header,
             copy_expert(
                 truncate(
                     create_if_not_exists(drop_if_different(tbl, csv.header),
                                          csv.header),
                     replace),
                 csv))

\* ------------------------------------------------------------------------
\* load_dw.run with the lookup of its source file, its connection and the
\* errors of the destination.
\* A path is [dir, name]; the disk is a function from the existing paths to
\* their files (a file without a line has the header <<>>).  A fault is
\* [phase, pgcode, message, k]: the statement the destination fails, the
\* SQLSTATE and the text of the error, and for a failed COPY the number of
\* rows received before the error.
\* ------------------------------------------------------------------------
Path(dir, name) == [dir |-> dir, name |-> name]

\* no path: the parameter path left out, or no file found
NoPath == Path("", "")

n_ddm == "ddm_icfes_pib.csv"

n_con_pib == "icfes_con_pib.csv"

\* line 16
DEFAULT_DDM == Path("staging", n_ddm)

\* line 86: the default of the parameter table
table_name == "ddm_icfes_pib"

\* lines 109-115
alt_paths(csv_path) ==
    <<Path("data", csv_path.name), Path("staging", csv_path.name),
      Path("data", n_ddm), Path("staging", n_ddm), Path("data", n_con_pib)>>

\* the search given up after the first alternative
try_alts_first_only(alts, k, tried, files) ==
    IF alts[1] \in DOMAIN files
        THEN [found |-> TRUE, csv_path |-> alts[1], tried |-> Dedupe(tried \o <<alts[1]>>)]
        ELSE [found |-> FALSE, csv_path |-> NoPath, tried |-> Dedupe(tried \o alts)]

\* lines 117-122: the alternatives in turn from the k-th on, each recorded
\* once in tried, up to the first that exists
RECURSIVE try_alts(_, _, _, _)
try_alts(alts, k, tried, files) ==
    IF k > Len(alts) THEN [found |-> FALSE, csv_path |-> NoPath, tried |-> tried]
    ELSE LET next(t) ==
                 IF alts[k] \in DOMAIN files
                     THEN [found |-> TRUE, csv_path |-> alts[k], tried |-> t]
                     ELSE try_alts(alts, k + 1, t, files)
         IN  next(IF InSeq(alts[k], tried) THEN tried ELSE Append(tried, alts[k]))

\* lines 104-122: [found, csv_path, tried]
locate_csv(path, files) ==
    LET from(csv_path) ==
            IF csv_path \in DOMAIN files
                THEN [found |-> TRUE, csv_path |-> csv_path, tried |-> <<csv_path>>]
                ELSE try_alts(alt_paths(csv_path), 1, <<csv_path>>, files)
    IN  from(IF path = NoPath THEN DEFAULT_DDM ELSE path)

\* the artifacts of the debug directories: none written
NoArtifact == [written |-> FALSE]

NoDebug ==
    [not_found |-> NoArtifact, csv_validation |-> NoArtifact,
     stats |-> NoArtifact, error |-> NoArtifact]

NoFault == [phase |-> "none", pgcode |-> NULL, message |-> "", k |-> 0]

\* the rows received before the error kept in the table
copy_failed_partial(tbl, csv, k) ==
    copy_expert(tbl, [csv EXCEPT !.rows = SubSeq(@, 1, k)])

\* lines 192, 246: a COPY that fails after k rows is rolled back when the
\* exception leaves the connection block; the values it drew from the
\* sequence are not given back
copy_failed(tbl, csv, k) == [tbl EXCEPT !.seq = @ + k]

\* lines 192-252: the statements sent to the destination, each phase
\* committed on its own; an error leaves the table as of the last commit.
\* [tabla, commits: the phases committed, err: the phase that failed]
db_phases(tbl, csv, replace, fault) ==
    LET failed(t, commits) == [tabla |-> t, commits |-> commits, err |-> fault.phase]
        \* line 251
        counted(t, commits) ==
            IF fault.phase = "count" THEN failed(t, commits)
            ELSE [tabla |-> t, commits |-> commits, err |-> "none"]
        \* lines 239-248
        copied(t, commits) ==
            IF fault.phase = "copy" THEN failed(copy_failed(t, csv, fault.k), commits)
            ELSE counted(copy_expert(t, csv), Append(commits, "copy"))
        \* lines 226-229
        truncated(t, commits) ==
            IF ~replace THEN copied(t, commits)
            ELSE IF fault.phase = "truncate" THEN failed(t, commits)
            ELSE copied(truncate(t, replace), Append(commits, "truncate"))
        \* lines 220-222
        created(t, commits) ==
            IF fault.phase = "create" THEN failed(t, commits)
            ELSE truncated(create_if_not_exists(t, csv.header),
                           Append(commits, "create"))
        \* lines 211-218
        dropped(t) ==
            IF drop_if_different(t, csv.header) = t THEN created(t, <<>>)
            ELSE IF fault.phase = "drop" THEN failed(t, <<>>)
            ELSE created(drop_if_different(t, csv.header), <<"drop">>)
    IN  \* lines 202-209
        IF fault.phase = "select" THEN failed(tbl, <<>>) ELSE dropped(tbl)

\* load_dw.run(path, table, conn_uri, replace) on the disk files and the
\* table tbl, the destination failing as fault says: [tabla, res, used: the
\* path read, connected, commits, debug: the artifacts written]
run_load(path, conn_uri, replace, fault, files, tbl) ==
    LET out(t, res, used, connected, commits, debug) ==
            [tabla |-> t, res |-> res, used |-> used, connected |-> connected,
             commits |-> commits, debug |-> debug]
        raised(e) == LoadResult("error", e, 0, 0, Num(0, 1), 0, 0, 0)
        \* lines 174-184
        validated(csv_path) ==
            [NoDebug EXCEPT !.csv_validation =
                [written |-> TRUE, dir |-> csv_path.dir, csv_path |-> csv_path,
                 columns |-> files[csv_path].header]]
        \* lines 326-344
        error_info(csv_path) ==
            [written |-> TRUE, dir |-> csv_path.dir,
             error_type |-> "PostgreSQL Error",
             error_code |-> fault.pgcode, error_message |-> fault.message,
             csv_path |-> csv_path, table |-> table_name]
        \* lines 259-324
        returned(csv_path, commits, st) ==
            out(st.tabla, st.res, csv_path, TRUE, commits,
                [validated(csv_path) EXCEPT
                    !.stats = [written |-> TRUE, dir |-> csv_path.dir,
                               table |-> table_name,
                               total_rows |-> st.res.rows_loaded]])
        finished(csv_path, d) ==
            IF d.err # "none"
                THEN out(d.tabla, raised("psycopg2.Error"), csv_path, TRUE, d.commits,
                         [validated(csv_path) EXCEPT !.error = error_info(csv_path)])
                ELSE returned(csv_path, d.commits,
                              load_stats(files[csv_path].header, d.tabla))
        \* lines 187-197
        connect(csv_path) ==
            IF conn_uri = NULL
                THEN out(tbl, raised("RuntimeError"), csv_path, FALSE, <<>>,
                         validated(csv_path))
            ELSE IF fault.phase = "connect"
                THEN out(tbl, raised("psycopg2.Error"), csv_path, FALSE, <<>>,
                         [validated(csv_path) EXCEPT !.error = error_info(csv_path)])
            ELSE finished(csv_path, db_phases(tbl, files[csv_path], replace, fault))
        \* lines 123-152
        located(loc) ==
            IF ~loc.found
                THEN out(tbl, raised("FileNotFoundError"), NoPath, FALSE, <<>>,
                         [NoDebug EXCEPT
                             !.not_found = [written |-> TRUE, dir |-> "data",
                                            tried_paths |-> loc.tried]])
            ELSE IF files[loc.csv_path].header = <<>>
                THEN out(tbl, raised("RuntimeError"), loc.csv_path, FALSE, <<>>, NoDebug)
            ELSE connect(loc.csv_path)
    IN  located(locate_csv(path, files))

NoLoadOut == [used |-> NoPath, connected |-> FALSE, commits |-> <<>>]


NoCall == [path |-> NoPath, conn_uri |-> NULL, replace |-> FALSE, fault |-> NoFault]

InitLoadIdle ==
    /\ ld_disk = [p \in {} |-> NoFile]
    /\ ld_call = NoCall
    /\ ld_out = NoLoadOut
    /\ ld_debug = NoDebug
    /\ pc_load = "idle"

\* ------------------------------------------------------------------------
\* _create_indexes: the optional indexes, each under its own savepoint.
\* A transaction is [status: "ok" or "aborted" (after a failed statement
\* every statement but a rollback is refused), indexes: the indexes there
\* are, savepoints: the open savepoints with the indexes at their start,
\* pending: the uncommitted rows of the surrounding load].  An index is
\* named by the list of its columns.
\* ------------------------------------------------------------------------
s_depto_presentacion ==
    <<"d", "e", "p", "t", "o", "_", "p", "r", "e", "s", "e", "n", "t", "a", "c",
      "i", "o", "n">>

\* lines 47-51
potential_indexes ==
    <<<<s_anio, s_anio_api>>,
      <<s_cole_cod_depto_ubicacion, s_depto_codigo>>,
      <<s_estu_cod_depto_presentacion, s_depto_presentacion>>>>

\* lines 72-74: the composite index
idx_compuesto == <<s_anio, s_cole_cod_depto_ubicacion>>

\* SAVEPOINT sp_<name>
savepoint(txn, name) ==
    IF txn.status = "aborted" THEN [txn |-> txn, raised |-> TRUE]
    ELSE [txn |-> [txn EXCEPT !.savepoints =
                      Append(@, [name |-> name, indexes |-> txn.indexes])],
          raised |-> FALSE]

\* CREATE INDEX IF NOT EXISTS <name>: it fails for the names in failing and
\* leaves the transaction aborted
create_index(txn, name, failing) ==
    IF txn.status = "aborted" THEN [txn |-> txn, raised |-> TRUE]
    ELSE IF name \in failing
        THEN [txn |-> [txn EXCEPT !.status = "aborted"], raised |-> TRUE]
    ELSE [txn |-> [txn EXCEPT !.indexes = @ \cup {name}], raised |-> FALSE]

Max(S) == CHOOSE x \in S : \A y \in S : y <= x

\* the positions of the savepoints called name (the last one is the one a
\* statement means)
SavepointPos(txn, name) ==
    {k \in 1..Len(txn.savepoints) : txn.savepoints[k].name = name}

\* RELEASE SAVEPOINT sp_<name>: the savepoint and the later ones forgotten
release_savepoint(txn, name) ==
    IF txn.status = "aborted" \/ SavepointPos(txn, name) = {}
        THEN [txn |-> [txn EXCEPT !.status = "aborted"], raised |-> TRUE]
    ELSE [txn |-> [txn EXCEPT !.savepoints =
                      SubSeq(@, 1, Max(SavepointPos(txn, name)) - 1)],
          raised |-> FALSE]

\* the handler without its ROLLBACK TO SAVEPOINT
rollback_skipped(txn, name) == [txn |-> txn, raised |-> FALSE]

\* ROLLBACK TO SAVEPOINT sp_<name>: what was done since the savepoint is
\* undone and the transaction accepts statements again; the savepoint stays
rollback_to_savepoint(txn, name) ==
    IF SavepointPos(txn, name) = {}
        THEN [txn |-> [txn EXCEPT !.status = "aborted"], raised |-> TRUE]
    ELSE LET k == Max(SavepointPos(txn, name)) IN
         [txn |-> [txn EXCEPT !.status = "ok",
                              !.indexes = txn.savepoints[k].indexes,
                              !.savepoints = SubSeq(@, 1, k)],
          raised |-> FALSE]

\* lines 59-69 (and 73-80): one try block.  [txn, created, raised: an
\* exception left the handler]
try_index(txn, name, failing) ==
    LET handler(t) ==
            [txn |-> rollback_to_savepoint(t, name).txn, created |-> FALSE,
             raised |-> rollback_to_savepoint(t, name).raised]
        released(r) ==
            IF r.raised THEN handler(r.txn)
            ELSE [txn |-> r.txn, created |-> TRUE, raised |-> FALSE]
        created(c) ==
            IF c.raised THEN handler(c.txn)
            ELSE released(release_savepoint(c.txn, name))
        saved(sp) ==
            IF sp.raised THEN handler(sp.txn)
            ELSE created(create_index(sp.txn, name, failing))
    IN  saved(savepoint(txn, name))

\* The state of _create_indexes is [txn, created_count, raised, attempted:
\* the names CREATE INDEX was tried for, in order].
IdxStep(st, name, r) ==
    [txn |-> r.txn,
     created_count |-> st.created_count + (IF r.created THEN 1 ELSE 0),
     raised |-> r.raised,
     attempted |-> Append(st.attempted, name)]

\* lines 56-69: the variants of one group from the k-th on; the first index
\* created ends the group
RECURSIVE try_variants(_, _, _, _, _)
try_variants(variants, k, columns, failing, st) ==
    IF k > Len(variants) \/ st.raised THEN st
    ELSE IF ~InSeq(variants[k], columns)
        THEN try_variants(variants, k + 1, columns, failing, st)
    ELSE LET next(r) ==
                 IF r.created THEN IdxStep(st, <<variants[k]>>, r)
                 ELSE try_variants(variants, k + 1, columns, failing,
                                   IdxStep(st, <<variants[k]>>, r))
         IN  next(try_index(st.txn, <<variants[k]>>, failing))

\* line 55: the groups from the g-th on
RECURSIVE try_groups(_, _, _, _)
try_groups(g, columns, failing, st) ==
    IF g > Len(potential_indexes) \/ st.raised THEN st
    ELSE try_groups(g + 1, columns, failing,
                    try_variants(potential_indexes[g], 1, columns, failing, st))

\* lines 43-83: _create_indexes(table, cur, columns) in the transaction txn
_create_indexes(columns, failing, txn) ==
    LET compuesto(st) ==
            IF st.raised
                   \/ ~(InSeq(s_anio, columns)
                           /\ InSeq(s_cole_cod_depto_ubicacion, columns))
                THEN st
                ELSE IdxStep(st, idx_compuesto, try_index(st.txn, idx_compuesto, failing))
    IN  compuesto(try_groups(1, columns, failing,
                             [txn |-> txn, created_count |-> 0, raised |-> FALSE,
                              attempted |-> <<>>]))

NoTxn == [status |-> "ok", indexes |-> {}, savepoints |-> <<>>, pending |-> 0]

NoIdxResult ==
    [txn |-> NoTxn, created_count |-> 0, raised |-> FALSE, attempted |-> <<>>]

InitIdxIdle ==
    /\ idx_columns = <<>>
    /\ idx_failing = {}
    /\ idx_txn = NoTxn
    /\ idx_res = NoIdxResult
    /\ pc_idx = "idle"

\* ------------------------------------------------------------------------
\* The DAG etl_icfes_pib_project2: its tasks and what the scheduler does
\* with them.  A task instance is "none" (not yet queued), "running",
\* "up_for_retry", "success", "failed" or "upstream_failed".
\* ------------------------------------------------------------------------
Tasks ==
    {"extract_icfes", "transform_icfes", "extract_api_pib", "transform_api_pib",
     "merge_icfes_pib", "init_datawarehouse", "load_to_datawarehouse"}

\* line 101: 'retries': 1
retries == 1

\* the dependencies without the one on the warehouse-init task
upstream_without_init(t) ==
    CASE t = "transform_icfes" -> {"extract_icfes"}
      [] t = "transform_api_pib" -> {"extract_api_pib"}
      [] t = "merge_icfes_pib" -> {"transform_icfes", "transform_api_pib"}
      [] t = "load_to_datawarehouse" -> {"merge_icfes_pib"}
      [] OTHER -> {}

\* lines 447-468: the tasks directly upstream of task t (the arguments of
\* the task calls and the >> lines)
upstream(t) ==
    CASE t = "transform_icfes" -> {"extract_icfes"}
      [] t = "transform_api_pib" -> {"extract_api_pib"}
      [] t = "merge_icfes_pib" -> {"transform_icfes", "transform_api_pib"}
      [] t = "load_to_datawarehouse" -> {"merge_icfes_pib", "init_datawarehouse"}
      [] OTHER -> {}

\* the trigger rule of every task (none is given: all_success)
all_success(t, state) == \A u \in upstream(t) : state[u] = "success"

\* an upstream task can no longer succeed
upstream_failed(t, state) ==
    \E u \in upstream(t) : state[u] \in {"failed", "upstream_failed"}

varsNoDag ==
    <<varsNorm, varsIcfes, varsApi, varsMerge, varsLoad, varsLoadEnv, varsIdx>>

InitDagIdle ==
    /\ task_state = [t \in Tasks |-> "none"]
    /\ task_tries = [t \in Tasks |-> 0]

\* the scheduler starts an attempt of a task whose trigger rule is met
start_task ==
    /\ \E t \in Tasks :
          /\ task_state[t] \in {"none", "up_for_retry"}
          /\ all_success(t, task_state)
          /\ task_state' = [task_state EXCEPT ![t] = "running"]
          /\ task_tries' = [task_tries EXCEPT ![t] = @ + 1]
    /\ UNCHANGED varsNoDag

\* the task function returns
task_succeeds ==
    /\ \E t \in Tasks :
          /\ task_state[t] = "running"
          /\ task_state' = [task_state EXCEPT ![t] = "success"]
    /\ UNCHANGED <<task_tries, varsNoDag>>

\* the task function raises: another attempt while retries are left
task_fails ==
    /\ \E t \in Tasks :
          /\ task_state[t] = "running"
          /\ task_state' = [task_state EXCEPT
                               ![t] = IF task_tries[t] <= retries
                                          THEN "up_for_retry" ELSE "failed"]
    /\ UNCHANGED <<task_tries, varsNoDag>>

\* a task with a failed upstream task is never run
mark_upstream_failed ==
    /\ \E t \in Tasks :
          /\ task_state[t] = "none"
          /\ upstream_failed(t, task_state)
          /\ task_state' = [task_state EXCEPT ![t] = "upstream_failed"]
    /\ UNCHANGED <<task_tries, varsNoDag>>

\* ------------------------------------------------------------------------
\* SpecIcfes: one run of the Consolidator on a bounded set of source files,
\* with or without a consolidated file left by an earlier run.
\* ------------------------------------------------------------------------
MaxFiles == 2        \* most source files in one run
MaxRows == 2         \* most rows in all the source files of one run together

RECURSIVE SeqsUpTo(_, _)
SeqsUpTo(S, n) ==
    IF n = 0 THEN {<<>>}
    ELSE LET Q == SeqsUpTo(S, n - 1) IN
         Q \cup {Append(q, x) : q \in {t \in Q : Len(t) = n - 1}, x \in S}

t_2019 == <<"2", "0", "1", "9">>
t_2015 == <<"2", "0", "1", "5">>
t_20194 == <<"2", "0", "1", "9", "4">>
t_20241 == <<"2", "0", "2", "4", "1">>
t_300 == <<"3", "0", "0">>
t_280 == <<"2", "8", "0">>

\* file-name stems: two inside the accepted window, one outside it
StemSet == {<<"S", "B", "1", "1", "_">> \o t_20194, t_2015,
            <<"i", "c", "f", "e", "s">> \o <<"2", "0", "2", "4">>}

\* a usable row, a row with no period, a row with no region code, a row of
\* a period after the accepted window
RowsFull == {<<t_20194, <<"5">>, t_300, <<"F">>>>,
             <<<<>>, <<"5">>, t_300, <<"F">>>>,
             <<t_20194, <<"N", "A">>, t_300, <<"F">>>>,
             <<t_20241, <<"5">>, t_300, <<"F">>>>}
RowsBare == {<<t_300>>}
RowsDup == {<<t_300, t_280>>}

\* a file name without any run of four digits
t_datos == <<"d", "a", "t", "o", "s">>

\* files with a period and a region-code column under every stem, a file
\* with neither under a stem of 2015 and under a stem without a year, and
\* a file with the score column in both spellings under a stem of 2015
IcfesFiles(n) ==
    {[stem |-> st, cols |-> HeaderFull, rows |-> rs] :
        st \in StemSet, rs \in SeqsUpTo(RowsFull, n)}
    \cup {[stem |-> st, cols |-> HeaderBare, rows |-> rs] :
        st \in {t_2015, t_datos}, rs \in SeqsUpTo(RowsBare, n)}
    \cup {[stem |-> t_2015, cols |-> HeaderDup, rows |-> rs] :
        rs \in SeqsUpTo(RowsDup, n)}

RECURSIVE TotalRows(_)
TotalRows(csvs) ==
    IF csvs = <<>> THEN 0 ELSE Len(Head(csvs).rows) + TotalRows(Tail(csvs))

\* a consolidated file written by an earlier run
OldMerged ==
    [exists |-> TRUE, header |-> <<s_anio, s_depto_normalizado, s_punt_global>>,
     rows |-> << <<t_2015, <<"1", "1">>, t_300>> >>]

\* the raw file of the API before any record is in it
RawApiHeader ==
    <<s_a_o, s_c_digo_departamento_divipola, s_departamento,
      s_valor_miles_de_millones_de>>

InitApiMergeIdle ==
    /\ pib_raw = [cols |-> RawApiHeader, rows |-> <<>>]
    /\ pib_csv = NoFile
    /\ pib_origin = "none"
    /\ res_api = ApiResult("none", "none")
    /\ pc_api = "idle"
    /\ ddm_csv = NoFile
    /\ ddm_src = <<>>
    /\ ddm_pre = <<>>
    /\ res_merge = NoMergeResult
    /\ pc_merge = "idle"

InitPipeIdle ==
    /\ InitApiMergeIdle
    /\ tabla = NoTable
    /\ res_load = NoLoadResult
    /\ n_loads = 0
    /\ tabla_before = NoTable
    /\ load_calls = <<>>

InitIcfesIdle ==
    /\ raw_csvs = <<>>
    /\ icfes_merged = NoFile
    /\ merged_src = <<>>
    /\ merged_before = NoFile
    /\ res_icfes = NoResult
    /\ pc_icfes = "idle"

InitNormIdle ==
    /\ depto_str = NULL
    /\ norm_pc = "idle"
    /\ norm1 = UNSET
    /\ norm2 = UNSET

InitIcfes ==
    /\ InitNormIdle
    /\ InitPipeIdle
    /\ InitLoadIdle
    /\ InitIdxIdle
    /\ InitDagIdle
    /\ raw_csvs = <<>>
    /\ icfes_merged \in {NoFile, OldMerged}
    /\ merged_src = [i \in 1..Len(icfes_merged.rows) |-> <<0, i>>]
    /\ merged_before = icfes_merged
    /\ res_icfes = NoResult
    /\ pc_icfes = "ready"

\* lines 96-102: one more path in the list run works on (given in raw_csvs
\* or found by the glob), in any order
add_raw_csv ==
    /\ pc_icfes = "ready"
    /\ Len(raw_csvs) < MaxFiles
    /\ \E f \in IcfesFiles(MaxRows - TotalRows(raw_csvs)) :
           raw_csvs' = Append(raw_csvs, f)
    /\ UNCHANGED <<varsAux, icfes_merged, merged_src, merged_before, res_icfes, pc_icfes,
                   varsNorm, varsApi, varsMerge, varsLoad>>

transform_icfes_run ==
    /\ pc_icfes = "ready"
    /\ \E r \in {transform_icfes(raw_csvs, icfes_merged, merged_src)} :
       /\ icfes_merged' = r.out
       /\ merged_src' = r.src
       /\ res_icfes' = r.res
       /\ pc_icfes' = IF r.res.status = "ok" THEN "done" ELSE "failed"
    /\ UNCHANGED <<varsAux, raw_csvs, merged_before, varsNorm, varsApi, varsMerge, varsLoad>>

NextIcfes == add_raw_csv \/ transform_icfes_run

SpecIcfes == InitIcfes /\ [][NextIcfes]_vars


\* ------------------------------------------------------------------------
\* SpecNorm: _normalizar_departamento applied to a bounded set of texts,
\* then applied again to its own result.
\* ------------------------------------------------------------------------
NormAlphabet == {"0", "1", "5", "-", ".", " ", "x"}

RECURSIVE TextsUpTo(_, _)
TextsUpTo(A, n) ==
    IF n = 0 THEN {<<>>}
    ELSE LET S == TextsUpTo(A, n - 1) IN
         S \cup {Append(s, c) : s \in {t \in S : Len(t) = n - 1}, c \in A}

NormInputs ==
    TextsUpTo(NormAlphabet, MaxStrLen)
        \cup {NULL, <<"i", "n", "f">>, <<"n", "a", "n">>, <<"-", "I", "n", "f">>}

InitNorm ==
    /\ InitIcfesIdle
    /\ InitPipeIdle
    /\ InitLoadIdle
    /\ InitIdxIdle
    /\ InitDagIdle
    /\ depto_str \in NormInputs
    /\ norm_pc = "in"
    /\ norm1 = UNSET
    /\ norm2 = UNSET

NormalizeOnce ==
    /\ norm_pc = "in"
    /\ norm1' = _normalizar_departamento(depto_str)
    /\ norm_pc' = "once"
    /\ UNCHANGED <<varsAux, depto_str, norm2, varsIcfes, varsApi, varsMerge, varsLoad>>

\* normalize(normalize(x)): an exception raised by the inner call is the
\* outcome of the whole expression.
NormalizeTwice ==
    /\ norm_pc = "once"
    /\ norm2' = IF norm1 = OverflowError THEN OverflowError
                ELSE _normalizar_departamento(norm1)
    /\ norm_pc' = "twice"
    /\ UNCHANGED <<varsAux, depto_str, norm1, varsIcfes, varsApi, varsMerge, varsLoad>>

NextNorm == NormalizeOnce \/ NormalizeTwice

SpecNorm == InitNorm /\ [][NextNorm]_vars

\* ------------------------------------------------------------------------
\* Spec: the pipeline.  transform_icfes.run and transform_api.run work
\* independently, merge.run follows both, load_dw.run follows merge.run and
\* may be run again (a retry or a later run of the DAG).  The lookup file
\* may also be one put in place from elsewhere: merge.run takes any path.
\* ------------------------------------------------------------------------
MaxApiRows == 2      \* most records in the raw file of the API
MaxLoads == 2        \* most calls of load_dw.run

t_11 == <<"1", "1">>

t_5p5 == <<"5", ".", "5">>

t_80c5 == <<"8", "0", ",", "5">>

t_80p5 == <<"8", "0", ".", "5">>

t_120p0 == <<"1", "2", "0", ".", "0">>

t_nd == <<"n", "/", "d">>

t_ANT == <<"A", "N", "T">>

t_BOG == <<"B", "O", "G">>

\* source rows of region 5 and of region 11, and one with no period
PipeRows == {<<t_20194, <<"5">>, t_300, <<"F">>>>,
             <<t_20194, t_11, t_300, <<"F">>>>,
             <<<<>>, t_11, t_300, <<"F">>>>}

\* the source files of one pipeline run: one file of 2019 with a region
\* column, or one of 2015 without
PipeInputs ==
    {<<[stem |-> <<"S", "B", "1", "1", "_">> \o t_20194, cols |-> HeaderFull,
        rows |-> rs]>> : rs \in SeqsUpTo(PipeRows, MaxRows)}
    \cup {<<[stem |-> t_2015, cols |-> HeaderBare, rows |-> <<<<t_300>>>>]>>}

\* records of the API: region 5 with a value, region 11 with a value written
\* with a decimal comma and no name, region 11 with a name and no usable
\* value, region 11 with a name and a value, a region code with a fraction
ApiRows == {<<t_2019, <<"5">>, t_ANT, t_120p0>>,
            <<t_2019, t_11, <<>>, t_80c5>>,
            <<t_2019, t_11, t_BOG, t_nd>>,
            <<t_2019, t_11, t_BOG, <<"7">>>>,
            <<t_2019, t_5p5, <<>>, <<"7">>>>}

\* lookup files not written by transform_api.run: one with padded region
\* codes, one with a key twice, once without a value
PibHeader == <<s_anio_api, s_depto_divipola, s_departamento, s_valor_api_mm>>

ExternalPib ==
    {[exists |-> TRUE, header |-> PibHeader,
      rows |-> << <<t_2019, <<"0", "5">>, t_ANT, t_120p0>> >>],
     [exists |-> TRUE, header |-> PibHeader,
      rows |-> << <<t_2019, t_11, t_BOG, t_80p5>>,
                  <<t_2019, t_11, t_BOG, <<>>>> >>]}

\* consolidated files not written by transform_icfes.run (merge.run takes
\* any path): one with no year column, one whose year and region columns
\* carry fallback names
ExternalIcfes ==
    {[exists |-> TRUE, header |-> <<s_depto_normalizado, s_punt_global>>,
      rows |-> << <<t_11, t_300>> >>],
     [exists |-> TRUE,
      header |-> <<s_PERIODO, s_cole_depto_ubicacion, s_PUNT_GLOBAL>>,
      rows |-> << <<t_2019, t_11, t_300>> >>]}

\* a table left in the warehouse by a load of a file with another header
OtherTable ==
    [exists |-> TRUE, columns |-> _ddl(<<s_anio, s_punt_global>>),
     rows |-> << <<<<"1">>, t_2015, t_300, s_now>> >>, seq |-> 1]

\* a table made elsewhere for the enriched file of a source with a region
\* code: the columns of that file in another order, and an updated_at column
LegacyTable ==
    [exists |-> TRUE,
     columns |-> <<ColumnDef(s_id, "BIGSERIAL", FALSE, "nextval")>>
                   \o _ddl_bare(<<s_pib_departamental_mm, s_departamento,
                                   s_punt_global, s_cole_cod_depto_ubicacion,
                                   s_depto_normalizado, s_anio>>)
                   \o <<ColumnDef(s_created_at, "TIMESTAMP", TRUE, "now"),
                        ColumnDef(s_updated_at, "TIMESTAMP", TRUE, "none")>>,
     rows |-> << <<<<"1">>, t_80p5, t_BOG, t_300, t_11, t_11, t_2015, s_now, NULL>> >>,
     seq |-> 1]

Init ==
    /\ InitNormIdle
    /\ InitLoadIdle
    /\ InitIdxIdle
    /\ InitDagIdle
    /\ raw_csvs \in PipeInputs
    /\ icfes_merged = NoFile
    /\ merged_src = <<>>
    /\ merged_before = NoFile
    /\ res_icfes = NoResult
    /\ pc_icfes = "ready"
    /\ pib_raw = [cols |-> RawApiHeader, rows |-> <<>>]
    /\ pib_csv = NoFile
    /\ pib_origin = "none"
    /\ res_api = ApiResult("none", "none")
    /\ pc_api = "ready"
    /\ ddm_csv = NoFile
    /\ ddm_src = <<>>
    /\ ddm_pre = <<>>
    /\ res_merge = NoMergeResult
    /\ pc_merge = "ready"
    /\ tabla \in {NoTable, OtherTable, LegacyTable}
    /\ res_load = NoLoadResult
    /\ n_loads = 0
    /\ tabla_before = NoTable
    /\ load_calls = <<>>

\* the extraction appends one more record to the raw file
add_api_row ==
    /\ pc_api = "ready"
    /\ Len(pib_raw.rows) < MaxApiRows
    /\ \E row \in ApiRows : pib_raw' = [pib_raw EXCEPT !.rows = Append(@, row)]
    /\ UNCHANGED <<varsAux, pib_csv, pib_origin, res_api, pc_api,
                   varsNorm, varsIcfes, varsMerge, varsLoad>>

\* transform_api.run(raw_csv); cast is what .astype("Int64") does with a
\* fraction in the build at hand
transform_api_run ==
    /\ pc_api = "ready"
    /\ \E cast \in {"trunc", "TypeError"} :
       \E r \in {transform_api(pib_raw, cast)} :
          /\ pib_csv' = IF r.res.status = "ok" THEN r.out ELSE pib_csv
          /\ pib_origin' = IF r.res.status = "ok" THEN "transform_api" ELSE pib_origin
          /\ res_api' = r.res
          /\ pc_api' = IF r.res.status = "ok" THEN "done" ELSE "failed"
    /\ UNCHANGED <<varsAux, pib_raw, varsNorm, varsIcfes, varsMerge, varsLoad>>

\* a lookup file from elsewhere put at the path merge.run reads
place_pib_csv ==
    /\ pc_api = "ready"
    /\ pib_raw.rows = <<>>
    /\ pib_csv' \in ExternalPib
    /\ pib_origin' = "external"
    /\ pc_api' = "done"
    /\ UNCHANGED <<varsAux, pib_raw, res_api, varsNorm, varsIcfes, varsMerge, varsLoad>>

\* a consolidated file from elsewhere put at the path merge.run reads
place_icfes_merged ==
    /\ pc_icfes = "ready"
    /\ raw_csvs[1].rows = <<>>
    /\ icfes_merged' \in ExternalIcfes
    /\ merged_src' = [i \in 1..Len(icfes_merged'.rows) |-> <<0, i>>]
    /\ pc_icfes' = "done"
    /\ UNCHANGED <<varsAux, raw_csvs, merged_before, res_icfes,
                   varsNorm, varsApi, varsMerge, varsLoad>>

\* merge.run(icfes_merged_csv, pib_by_depto_csv)
merge_run ==
    /\ pc_icfes = "done"
    /\ pc_api = "done"
    /\ pc_merge = "ready"
    /\ \E r \in {merge(icfes_merged, pib_csv, ddm_csv, ddm_src)} :
          /\ ddm_csv' = r.out
          /\ ddm_src' = r.src
          /\ ddm_pre' = r.pre
          /\ res_merge' = r.res
          /\ pc_merge' = IF r.res.status = "ok" THEN "done" ELSE "failed"
    /\ UNCHANGED <<varsAux, varsNorm, varsIcfes, varsApi, varsLoad>>

\* load_dw.run(path, table, conn_uri, replace)
load_dw_run ==
    /\ pc_merge = "done"
    /\ n_loads < MaxLoads
    /\ \E replace \in BOOLEAN :
       \E r \in {load_dw(ddm_csv, tabla, replace)} :
          /\ tabla' = r.tabla
          /\ res_load' = r.res
          /\ load_calls' = Append(load_calls, replace)
    /\ tabla_before' = tabla
    /\ n_loads' = n_loads + 1
    /\ UNCHANGED <<varsAux, varsNorm, varsIcfes, varsApi, varsMerge>>

Next ==
    \/ transform_icfes_run
    \/ add_api_row
    \/ transform_api_run
    \/ place_pib_csv
    \/ place_icfes_merged
    \/ merge_run
    \/ load_dw_run

Spec == Init /\ [][Next]_vars

\* ------------------------------------------------------------------------
\* SpecLoad: one call of load_dw.run, with files at some of the paths it
\* looks at, a table left by an earlier load or none, and a destination
\* that fails one statement or none.
\* ------------------------------------------------------------------------
MaxDiskFiles == 2    \* most files on disk

n_export == "export.csv"

\* the path arguments: none given, or a file outside the data directory
LoadPathArgs == {NoPath, Path("custom", n_export)}

DiskPaths ==
    {Path("custom", n_export), Path("data", n_export), Path("staging", n_export),
     Path("data", n_ddm), Path("staging", n_ddm), Path("data", n_con_pib)}

DdmHeader ==
    <<s_anio, s_depto_normalizado, s_cole_cod_depto_ubicacion, s_punt_global,
      s_departamento, s_pib_departamental_mm>>

\* what a path holds when it exists: an enriched file of two rows or of
\* one, a file of two columns, and under data/export.csv a file without
\* a line
FileAt(p) ==
    CASE p.name = n_ddm ->
            [exists |-> TRUE, header |-> DdmHeader,
             rows |-> << <<t_2019, <<"0", "5">>, <<"5">>, t_300, t_ANT, t_120p0>>,
                         <<t_2019, t_11, t_11, t_300, <<>>, <<>>>> >>]
      [] p.name = n_con_pib ->
            [exists |-> TRUE, header |-> DdmHeader,
             rows |-> << <<t_2019, t_11, t_11, t_300, t_BOG, t_80p5>> >>]
      [] p.dir = "data" -> [exists |-> TRUE, header |-> <<>>, rows |-> <<>>]
      [] OTHER ->
            [exists |-> TRUE, header |-> <<s_anio, s_punt_global>>,
             rows |-> << <<t_2019, t_300>> >>]

pg_uri == <<"p", "g">>

t_42501 == <<"4", "2", "5", "0", "1">>

t_22P04 == <<"2", "2", "P", "0", "4">>

t_57P01 == <<"5", "7", "P", "0", "1">>

\* the destination refuses the connection (an error without SQLSTATE),
\* denies a statement, finds a malformed line after k rows of the COPY, or
\* shuts down before the count
Faults ==
    {NoFault,
     [phase |-> "connect", pgcode |-> NULL, message |-> "could not connect", k |-> 0],
     [phase |-> "count", pgcode |-> t_57P01, message |-> "terminating connection",
      k |-> 0]}
    \cup {[phase |-> ph, pgcode |-> t_42501, message |-> "permission denied",
           k |-> 0] : ph \in {"select", "drop", "create", "truncate"}}
    \cup {[phase |-> "copy", pgcode |-> t_22P04, message |-> "extra data", k |-> k] :
           k \in {0, 1}}

InitLoad ==
    /\ InitNormIdle
    /\ InitIcfesIdle
    /\ InitApiMergeIdle
    /\ InitIdxIdle
    /\ InitDagIdle
    /\ tabla \in {NoTable, OtherTable, LegacyTable}
    /\ res_load = NoLoadResult
    /\ n_loads = 0
    /\ tabla_before = NoTable
    /\ load_calls = <<>>
    /\ ld_disk = [p \in {} |-> NoFile]
    /\ ld_call = NoCall
    /\ ld_out = NoLoadOut
    /\ ld_debug = NoDebug
    /\ pc_load = "ready"

\* one more file on disk
write_file ==
    /\ pc_load = "ready"
    /\ Cardinality(DOMAIN ld_disk) < MaxDiskFiles
    /\ \E p \in DiskPaths \ DOMAIN ld_disk :
          ld_disk' = [q \in DOMAIN ld_disk \cup {p} |->
                         IF q = p THEN FileAt(p) ELSE ld_disk[q]]
    /\ UNCHANGED <<ld_call, ld_out, ld_debug, pc_load, varsNorm, varsIcfes,
                   varsApi, varsMerge, varsLoad, varsIdx, varsDag>>

\* load_dw.run(path, table, conn_uri, replace)
load_dw_call ==
    /\ pc_load = "ready"
    /\ \E path \in LoadPathArgs, conn_uri \in {NULL, pg_uri}, replace \in BOOLEAN,
          fault \in Faults :
       \E r \in {run_load(path, conn_uri, replace, fault, ld_disk, tabla)} :
          /\ tabla' = r.tabla
          /\ res_load' = r.res
          /\ load_calls' = Append(load_calls, replace)
          /\ ld_call' = [path |-> path, conn_uri |-> conn_uri, replace |-> replace,
                         fault |-> fault]
          /\ ld_out' = [used |-> r.used, connected |-> r.connected,
                        commits |-> r.commits]
          /\ ld_debug' = r.debug
          /\ pc_load' = IF r.res.status = "ok" THEN "done" ELSE "failed"
    /\ tabla_before' = tabla
    /\ n_loads' = n_loads + 1
    /\ UNCHANGED <<ld_disk, varsNorm, varsIcfes, varsApi, varsMerge, varsIdx, varsDag>>

NextLoad == write_file \/ load_dw_call

SpecLoad == InitLoad /\ [][NextLoad]_vars

\* ------------------------------------------------------------------------
\* SpecIdx: one call of _create_indexes inside a load transaction, for a
\* table with some of the candidate columns and a destination that refuses
\* some of the indexes.
\* ------------------------------------------------------------------------
IdxLabels ==
    <<s_anio, s_anio_api, s_cole_cod_depto_ubicacion, s_depto_codigo,
      s_estu_cod_depto_presentacion, s_punt_global>>

IdxNames == {<<IdxLabels[k]>> : k \in 1..Len(IdxLabels)} \cup {idx_compuesto}

InitIdx ==
    /\ InitNormIdle
    /\ InitIcfesIdle
    /\ InitPipeIdle
    /\ InitLoadIdle
    /\ InitDagIdle
    /\ idx_columns = <<>>
    /\ idx_failing = {}
    /\ idx_txn \in {NoTxn, [NoTxn EXCEPT !.pending = 2]}
    /\ idx_res = NoIdxResult
    /\ pc_idx = "ready"

\* the table has one more of the columns, in the order of IdxLabels
add_column ==
    /\ pc_idx = "ready"
    /\ \E k \in 1..Len(IdxLabels) :
          /\ \A j \in k..Len(IdxLabels) : ~InSeq(IdxLabels[j], idx_columns)
          /\ idx_columns' = Append(idx_columns, IdxLabels[k])
    /\ UNCHANGED <<idx_failing, idx_txn, idx_res, pc_idx, varsNorm, varsIcfes,
                   varsApi, varsMerge, varsLoad, varsLoadEnv, varsDag>>

\* the destination will refuse one more index
refuse_index ==
    /\ pc_idx = "ready"
    /\ \E name \in IdxNames \ idx_failing : idx_failing' = idx_failing \cup {name}
    /\ UNCHANGED <<idx_columns, idx_txn, idx_res, pc_idx, varsNorm, varsIcfes,
                   varsApi, varsMerge, varsLoad, varsLoadEnv, varsDag>>

\* _create_indexes(table, cur, columns)
create_indexes_call ==
    /\ pc_idx = "ready"
    /\ idx_res' = _create_indexes(idx_columns, idx_failing, idx_txn)
    /\ pc_idx' = "done"
    /\ UNCHANGED <<idx_columns, idx_failing, idx_txn, varsNorm, varsIcfes,
                   varsApi, varsMerge, varsLoad, varsLoadEnv, varsDag>>

NextIdx == add_column \/ refuse_index \/ create_indexes_call

SpecIdx == InitIdx /\ [][NextIdx]_vars

\* ------------------------------------------------------------------------
\* SpecDag: one run of the DAG under the scheduler, every task function
\* free to return or to raise.
\* ------------------------------------------------------------------------
InitDag ==
    /\ InitNormIdle
    /\ InitIcfesIdle
    /\ InitPipeIdle
    /\ InitLoadIdle
    /\ InitIdxIdle
    /\ InitDagIdle

NextDag == start_task \/ task_succeeds \/ task_fails \/ mark_upstream_failed

SpecDag == InitDag /\ [][NextDag]_vars



\* ========================================================================
\* Properties
\* ========================================================================

\* ---- Region-code normalization (SpecNorm) ------------------------------

NormDone == norm_pc \in {"once", "twice"}

\* C7: _normalizar_departamento is idempotent: applying it to its own
\* outcome gives that outcome again; "5" gives "05", "05" gives "05" and the
\* empty text gives null.
C7_Idempotent ==
    /\ norm_pc = "twice" => norm2 = norm1
    /\ NormDone /\ depto_str = <<"5">> => norm1 = <<"0", "5">>
    /\ NormDone /\ depto_str = <<"0", "5">> => norm1 = <<"0", "5">>
    /\ NormDone /\ depto_str = <<>> => norm1 = NULL

C7_Witness ==
    /\ norm_pc = "twice"
    /\ depto_str = <<"5">>
    /\ norm1 = <<"0", "5">>
    /\ norm2 = <<"0", "5">>

\* C8: the outcome of _normalizar_departamento is always null or a text of
\* exactly two decimal digits.
C8_TwoDigitsOrNull ==
    NormDone => norm1 = NULL \/ (Len(norm1) = 2 /\ AllDigits(norm1))

\* ---- Consolidator (SpecIcfes) ------------------------------------------

FileYear(i) == _extraer_anio_de_nombre(raw_csvs[i].stem)

AcceptedIdx ==
    {i \in 1..Len(raw_csvs) : YearMin <= FileYear(i) /\ FileYear(i) <= YearMax}

\* the region-code column of a source file as run looks it up, or NULL
RegionColOf(f) ==
    LET labels == [i \in 1..Len(f.cols) |-> lower(strip(f.cols[i]))]
        cands == <<s_cole_cod_depto_ubicacion, s_estu_cod_depto_presentacion,
                   s_estu_cod_reside_depto>>
        hits == {k \in 1..Len(cands) : InSeq(cands[k], labels)}
    IN  IF hits = {} THEN NULL ELSE cands[Min(hits)]

RegionCell(f, r) ==
    LET labels == [i \in 1..Len(f.cols) |-> lower(strip(f.cols[i]))]
        p == Min({i \in 1..Len(labels) : labels[i] = RegionColOf(f)})
    IN  ReadCell(f.rows[r][p])

\* the rows of a source file that pass its missing-key filter
SurvivingRows(f) ==
    {r \in 1..Len(f.rows) :
        RegionColOf(f) # NULL => _normalizar_departamento(RegionCell(f, r)) # NULL}

RECURSIVE SumSurviving(_)
SumSurviving(I) ==
    IF I = {} THEN 0
    ELSE Cardinality(SurvivingRows(raw_csvs[Min(I)])) + SumSurviving(I \ {Min(I)})

\* C5: the rows of the output are grouped by source file, the files in
\* ascending file-year, files of equal year in input order, and the rows
\* of one file in their order in the file.
C5_OrderedByFileYear ==
    pc_icfes = "done" =>
        /\ Len(merged_src) = Len(icfes_merged.rows)
        /\ \A i, j \in 1..Len(merged_src) :
              i < j =>
                /\ FileYear(merged_src[i][1]) <= FileYear(merged_src[j][1])
                /\ FileYear(merged_src[i][1]) = FileYear(merged_src[j][1])
                      => merged_src[i][1] <= merged_src[j][1]
                /\ merged_src[i][1] = merged_src[j][1]
                      => merged_src[i][2] < merged_src[j][2]

\* a later input file of an earlier year was written first
C5_Witness ==
    /\ pc_icfes = "done"
    /\ \E i, j \in 1..Len(merged_src) :
          i < j /\ merged_src[i][1] > merged_src[j][1]

\* C6: the output holds, and 'rows' reports, the sum over the accepted
\* files of the rows that pass the file's missing-key filter, and
\* archivos_procesados counts every accepted file, also one that
\* contributes no row.
C6_RowCount ==
    pc_icfes = "done" =>
        /\ Len(icfes_merged.rows) = res_icfes.rows
        /\ res_icfes.rows = SumSurviving(AcceptedIdx)
        /\ res_icfes.archivos_procesados = Cardinality(AcceptedIdx)

\* two accepted files: one loses its only row to the filter, one keeps a row
C6_Witness ==
    /\ pc_icfes = "done"
    /\ res_icfes.archivos_procesados = 2
    /\ res_icfes.rows = 1
    /\ \E i \in AcceptedIdx :
          Len(raw_csvs[i].rows) = 1 /\ SurvivingRows(raw_csvs[i]) = {}

\* C9: every row written has a year that is neither null nor empty and,
\* when its file has a region-code column, a non-null normalized region
\* code ('año' is the first selected column, depto_normalizado the second).
C9_NoMissingKeyWritten ==
    pc_icfes = "done" =>
        \A i \in 1..Len(icfes_merged.rows) :
            /\ icfes_merged.rows[i][1] \notin {NULL, <<>>}
            /\ RegionColOf(raw_csvs[merged_src[i][1]]) # NULL
                  => icfes_merged.rows[i][2] # NULL

\* C10: with no input file inside the accepted window the run fails with
\* FileNotFoundError and leaves the output file as it was; and no row of
\* a successful run comes from a file outside the window.
C10_NoAcceptedFile ==
    /\ pc_icfes \in {"done", "failed"} /\ AcceptedIdx = {}
          => /\ pc_icfes = "failed"
             /\ res_icfes.error = "FileNotFoundError"
             /\ icfes_merged = merged_before
    /\ pc_icfes = "done"
          => \A i \in 1..Len(merged_src) : merged_src[i][1] \in AcceptedIdx

\* files with rows were given, none inside the window; the earlier output
\* is still there
C10_Witness ==
    /\ pc_icfes = "failed"
    /\ TotalRows(raw_csvs) > 0
    /\ AcceptedIdx = {}
    /\ merged_before = OldMerged
    /\ icfes_merged = OldMerged

\* a source file with no year column and no year in its name
NoYearSource(f) ==
    /\ FirstPresent(_read_csv_robusto(f),
                    <<s_periodo, s_PERIODO, s_estu_anoterminobachiller>>) = NULL
    /\ _extraer_anio_de_nombre(f.stem) = NoYear

\* C11: a run given a source file with no year column and no year in its
\* name fails (whatever the kind of the error): it does not complete.
C11_NoYearSourceFails ==
    (pc_icfes \in {"done", "failed"}
        /\ \E i \in 1..Len(raw_csvs) : NoYearSource(raw_csvs[i]))
    => pc_icfes = "failed"

\* ------------------------------------------------------------------------
\* The join stage and the pipeline (Spec)
\* ------------------------------------------------------------------------
\* the cell of row r of a file under the header label
FileCell(f, label, r) ==
    f.rows[r][CHOOSE k \in 1..Len(f.header) : f.header[k] = label]

\* the rows of the enriched file that hold a value
RowsWithValue ==
    {r \in 1..Len(ddm_csv.rows) : FileCell(ddm_csv, s_pib_departamental_mm, r) # <<>>}

MergeDone == pc_merge = "done" /\ res_merge.status = "ok"

\* C1: with a lookup file written by transform_api.run, the file merge.run
\* writes holds one row per row of the consolidated file, in the same order
\* and with the same consolidated cells, matched or not, and total_rows is
\* the number of consolidated rows.
C1_OneRowPerInputRow ==
    (MergeDone /\ pib_origin = "transform_api") =>
        /\ Len(ddm_csv.rows) = Len(icfes_merged.rows)
        /\ res_merge.total_rows = Len(icfes_merged.rows)
        /\ ddm_src = [i \in 1..Len(icfes_merged.rows) |-> i]
        /\ \A i \in 1..Len(ddm_csv.rows) :
               SubSeq(ddm_csv.rows[i], 1, Len(icfes_merged.header))
                   = [k \in 1..Len(icfes_merged.header) |->
                         WriteCell(ReadCellNaN(icfes_merged.rows[i][k]))]

\* a run over two consolidated rows, one matched by the lookup and one not
C1_Witness ==
    /\ MergeDone
    /\ pib_origin = "transform_api"
    /\ Len(icfes_merged.rows) = 2
    /\ Cardinality(RowsWithValue) = 1

\* C2: when the raw lookup holds the one record (2019, 5, 120.0), the
\* enriched rows of year 2019 and region "05" carry the value 120.0 and the
\* rows of region "11" carry none.
C2_Region05GetsValue ==
    (MergeDone /\ pib_origin = "transform_api" /\ res_icfes.status = "ok"
        /\ InSeq(s_depto_normalizado, ddm_csv.header)
        /\ pib_raw.rows = << <<t_2019, <<"5">>, t_ANT, t_120p0>> >>) =>
        \A r \in 1..Len(ddm_csv.rows) :
            /\ (FileCell(ddm_csv, s_anio, r) = t_2019
                    /\ FileCell(ddm_csv, s_depto_normalizado, r) = <<"0", "5">>)
                => FileCell(ddm_csv, s_pib_departamental_mm, r) = t_120p0
            /\ FileCell(ddm_csv, s_depto_normalizado, r) = t_11
                => FileCell(ddm_csv, s_pib_departamental_mm, r) = <<>>

\* C3: rows_with_pib is the number of written rows that hold a value after
\* the join and the imputation, and pib_coverage is that number over the
\* number of written rows.
C3_StatsCountWrittenValues ==
    MergeDone =>
        /\ res_merge.rows_with_pib = Cardinality(RowsWithValue)
        /\ Len(ddm_csv.rows) > 0 =>
               res_merge.pib_coverage
                   = Num(Cardinality(RowsWithValue), Len(ddm_csv.rows))

InUnitInterval(v) == 0 <= v[2] /\ v[2] <= v[3]

\* C4: after a successful merge.run and after a successful load_dw.run the
\* returned pib_coverage lies in [0, 1] and the rows with a value are no
\* more than all the rows, also when there is no row at all.
C4_CoverageInUnitInterval ==
    /\ MergeDone =>
          /\ InUnitInterval(res_merge.pib_coverage)
          /\ 0 <= res_merge.rows_with_pib
          /\ res_merge.rows_with_pib <= res_merge.total_rows
    /\ res_load.status = "ok" =>
          /\ InUnitInterval(res_load.pib_coverage)
          /\ 0 <= res_load.rows_with_pib
          /\ res_load.rows_with_pib <= res_load.rows_loaded

\* a merge and a load over a consolidated file without rows
C4_Witness ==
    /\ MergeDone
    /\ res_merge.total_rows = 0
    /\ res_load.status = "ok"
    /\ res_load.rows_loaded = 0

\* ------------------------------------------------------------------------
\* The Lookup Normalizer (Spec)
\* ------------------------------------------------------------------------
ApiDone == pc_api = "done" /\ pib_origin = "transform_api"

\* the year, the region code and the value of raw record i as numbers (the
\* raw header is year, region code, name, value), a code with a fraction cut
RawKey(i) ==
    <<ToInt64(_safe_numeric(ReadCell(pib_raw.rows[i][1])), "trunc"),
      ToInt64(_safe_numeric(ReadCell(pib_raw.rows[i][2])), "trunc")>>

RawValue(i) == _safe_numeric(ReadCell(pib_raw.rows[i][4]))

RawName(i) == ReadCell(pib_raw.rows[i][3])

\* every raw record read once: [key, value, name]
RawRecords ==
    [i \in 1..Len(pib_raw.rows) |->
        [key |-> RawKey(i), value |-> RawValue(i), name |-> RawName(i)]]

\* the records that survive the cleaning
Survivors(recs) ==
    {i \in 1..Len(recs) :
        recs[i].key[1] # NULL /\ recs[i].key[2] # NULL /\ recs[i].value # NULL}

GroupOf(recs, k) == {i \in Survivors(recs) : recs[i].key = k}

RECURSIVE SumOf(_, _)
SumOf(recs, I) ==
    IF I = {} THEN Num(0, 1)
    ELSE NumAdd(recs[Min(I)].value, SumOf(recs, I \ {Min(I)}))

FirstNameOf(recs, I) ==
    LET pick(named) == IF named = {} THEN <<>> ELSE recs[Min(named)].name
    IN  pick({i \in I : strip(recs[i].name) # <<>>})

\* the row the claim expects for the key k
ExpectedRow(recs, k) ==
    <<IntStr(k[1][2]), IntStr(k[2][2]),
      FirstNameOf(recs, GroupOf(recs, k)),
      FormatFloat(SumOf(recs, GroupOf(recs, k)))>>

OneRowPerKey(recs, rows) ==
    /\ Len(rows) = Cardinality({recs[i].key : i \in Survivors(recs)})
    /\ \A i \in Survivors(recs) :
          \E r \in 1..Len(rows) : rows[r] = ExpectedRow(recs, recs[i].key)

\* C12: the file transform_api.run writes holds exactly one row for each
\* (year, region code) of the surviving records; its value is the sum of
\* the values of the surviving records of that key and its name the first
\* non-blank name among them in record order, empty if there is none.
C12_OneRowPerKey == ApiDone => OneRowPerKey(RawRecords, pib_csv.rows)

\* two surviving records of one key, the name on the second: one row with
\* the sum 80.5 + 7 and that name
C12_Witness ==
    /\ ApiDone
    /\ pib_raw.rows = << <<t_2019, t_11, <<>>, t_80c5>>,
                         <<t_2019, t_11, t_BOG, <<"7">>>> >>
    /\ pib_csv.rows = << <<t_2019, t_11, t_BOG, <<"8", "7", ".", "5">>>> >>

\* the records whose year and region code are whole numbers and whose value
\* is a number: for each record, whether it is one
RawCoercible ==
    [i \in 1..Len(pib_raw.rows) |->
        /\ ToInt64(_safe_numeric(ReadCell(pib_raw.rows[i][1])), "TypeError")
               \notin {NULL, <<"TypeError">>}
        /\ ToInt64(_safe_numeric(ReadCell(pib_raw.rows[i][2])), "TypeError")
               \notin {NULL, <<"TypeError">>}
        /\ RawValue(i) # NULL]

BadRowsDropped(ok, recs, rows) ==
    /\ (\E i \in 1..Len(ok) : ok[i]) => res_api.status = "ok"
    /\ res_api.status = "ok" =>
          Len(rows) = Cardinality({recs[i].key : i \in {j \in 1..Len(ok) : ok[j]}})

\* C13: a record whose year, region code or value is not a number, or whose
\* year or region code has a fraction, is dropped and the run goes on: the
\* run succeeds whenever one record is left, and the rows written are those
\* of the keys of the records left.
C13_BadRowsDropped ==
    res_api.status # "none" => BadRowsDropped(RawCoercible, RawRecords, pib_csv.rows)

\* ------------------------------------------------------------------------
\* The join stage: schema and errors (Spec)
\* ------------------------------------------------------------------------
\* C14: the columns of the enriched file are the columns of the
\* consolidated file and the one value column pib_departamental_mm, no
\* more and no fewer.
C14_OutputSchema ==
    MergeDone =>
        /\ Len(ddm_csv.header) = Len(icfes_merged.header) + 1
        /\ SetOf(ddm_csv.header)
              = {lower(icfes_merged.header[k]) : k \in 1..Len(icfes_merged.header)}
                    \cup {s_pib_departamental_mm}

\* C15: merge.run on a consolidated file without data rows fails; it
\* returns no result with total_rows = 0.
C15_EmptyInputFails ==
    (pc_merge \in {"done", "failed"} /\ icfes_merged.rows = <<>>)
    => (pc_merge = "failed" /\ res_merge.status = "error")

\* the labels of the consolidated file as merge.run compares them
MergedLabels == {lower(icfes_merged.header[k]) : k \in 1..Len(icfes_merged.header)}

YearLabels == {s_anio, s_periodo, s_estu_anoterminobachiller, s_anio_origen}

RegionLabels ==
    {s_depto_normalizado, s_cole_cod_depto_ubicacion,
     s_estu_cod_depto_presentacion, s_cole_depto_ubicacion}

\* C16: when the consolidated file has no year column or no region column
\* under any of the names merge.run tries, the run raises RuntimeError
\* and nothing is written: the output file is not created and no row is
\* counted.
C16_JoinKeyMissing ==
    (pc_merge \in {"done", "failed"}
        /\ (MergedLabels \cap YearLabels = {} \/ MergedLabels \cap RegionLabels = {}))
    => /\ pc_merge = "failed"
       /\ res_merge.error = "RuntimeError"
       /\ res_merge.total_rows = 0
       /\ ddm_csv = NoFile
       /\ ddm_src = <<>>

\* a consolidated file with a row and no year column was given, and one
\* with a row and no region column
C16_Witness ==
    /\ pc_merge = "failed"
    /\ res_merge.error = "RuntimeError"
    /\ Len(icfes_merged.rows) > 0
    /\ MergedLabels \cap YearLabels = {} \/ MergedLabels \cap RegionLabels = {}

\* ------------------------------------------------------------------------
\* The Bulk Loader (Spec)
\* ------------------------------------------------------------------------
\* the names of the columns of a table other than id and created_at
DataColumns(tbl) ==
    SelectSeq(existing_cols(tbl), LAMBDA c : c \notin {s_id, s_created_at})

\* the set of names the loader compares with the header
ComparedColumns(tbl) ==
    SetOf(existing_cols(tbl)) \ {s_id, s_created_at, s_updated_at}

LastReplace == load_calls[Len(load_calls)]

\* C17: a load into a destination without the table creates it with the
\* column id, one nullable TEXT column per header label in header order
\* and the column created_at, and rows_loaded is the number of data rows
\* of the file, all of them in the table.
C17_FreshTable ==
    (n_loads >= 1 /\ ~tabla_before.exists) =>
        /\ Len(tabla.columns) = Len(ddm_csv.header) + 2
        /\ tabla.columns[1].name = s_id
        /\ tabla.columns[Len(tabla.columns)].name = s_created_at
        /\ \A k \in 1..Len(ddm_csv.header) :
              /\ tabla.columns[k + 1].name = ddm_csv.header[k]
              /\ tabla.columns[k + 1].type = "TEXT"
              /\ tabla.columns[k + 1].nullable
        /\ res_load.rows_loaded = Len(ddm_csv.rows)
        /\ Len(tabla.rows) = Len(ddm_csv.rows)

\* a file of two rows loaded into a destination without the table
C17_Witness ==
    /\ n_loads = 1
    /\ ~tabla_before.exists
    /\ res_load.status = "ok"
    /\ res_load.rows_loaded = 2
    /\ Len(tabla.columns) > 2

\* C18: a load with replace = False into a table whose columns, id and
\* created_at aside, are the header labels keeps the table and its rows and
\* adds the rows of the file after them: the row count grows by the number
\* of data rows of the file.
C18_AppendOnly ==
    (n_loads >= 1 /\ ~LastReplace /\ tabla_before.exists
        /\ SetOf(DataColumns(tabla_before)) = SetOf(ddm_csv.header)) =>
        /\ tabla.columns = tabla_before.columns
        /\ SubSeq(tabla.rows, 1, Len(tabla_before.rows)) = tabla_before.rows
        /\ Len(tabla.rows) = Len(tabla_before.rows) + Len(ddm_csv.rows)
        /\ res_load.rows_loaded = Len(tabla.rows)

\* a second load of a file with rows into the table the first one filled
C18_Witness ==
    /\ n_loads = 2
    /\ ~LastReplace
    /\ SetOf(DataColumns(tabla_before)) = SetOf(ddm_csv.header)
    /\ Len(tabla_before.rows) > 0
    /\ Len(ddm_csv.rows) > 0
    /\ Len(tabla.rows) = Len(tabla_before.rows) + Len(ddm_csv.rows)

\* C19 as stated: after a load the columns of the table, id and created_at
\* aside, are exactly the header labels (a table that differed in any way
\* was recreated).
C19_ExactColumns ==
    n_loads >= 1 => DataColumns(tabla) = ddm_csv.header

\* C19: the loader compares sets of names and leaves id, created_at and
\* updated_at out.  A table whose set differs from the header's is dropped
\* and recreated with exactly the header labels, its rows lost; a table
\* whose set is the header's is kept as it is, whatever the order of its
\* columns and with its updated_at column.  Either way the compared set is
\* the header's after the run.
C19_ColumnSetReconciled ==
    n_loads >= 1 =>
        /\ ComparedColumns(tabla) = SetOf(ddm_csv.header)
        /\ (tabla_before.exists
                /\ ComparedColumns(tabla_before) = SetOf(ddm_csv.header))
              => tabla.columns = tabla_before.columns
        /\ (tabla_before.exists
                /\ ComparedColumns(tabla_before) # SetOf(ddm_csv.header))
              => /\ DataColumns(tabla) = ddm_csv.header
                 /\ Len(tabla.rows) = Len(ddm_csv.rows)

\* a table with the header's labels in another order and an updated_at
\* column was kept, its row too
C19_Witness ==
    /\ n_loads = 1
    /\ ~LastReplace
    /\ tabla_before = LegacyTable
    /\ tabla.columns = LegacyTable.columns
    /\ DataColumns(tabla) # ddm_csv.header
    /\ Len(tabla.rows) = 1 + Len(ddm_csv.rows)

\* C20: two calls of load_dw.run with replace = False on the same file
\* leave the table as one call leaves it.
C20_RetryIdempotent ==
    load_calls = <<FALSE, FALSE>> => tabla = tabla_before

\* ---- Consolidator (SpecIcfes), continued --------------------------------

\* the period column of a source file as run looks it up, or NULL
PeriodColOf(f) ==
    FirstPresent(_read_csv_robusto(f),
                 <<s_periodo, s_PERIODO, s_estu_anoterminobachiller>>)

\* the year in the period cell of row r of a source file with a period
\* column, NoYear when the cell does not start with four digits
PeriodYear(f, r) ==
    LET c == Str4(ColCells(_read_csv_robusto(f), PeriodColOf(f))[r])
    IN  IF Len(c) = 4 /\ AllDigits(c) THEN DigitsVal(c) ELSE NoYear

InWindow(y) == YearMin <= y /\ y <= YearMax

\* the source files whose rows (at least one) all carry one period year
SinglePeriodFiles ==
    {i \in 1..Len(raw_csvs) :
        /\ PeriodColOf(raw_csvs[i]) # NULL
        /\ raw_csvs[i].rows # <<>>
        /\ \A r \in 1..Len(raw_csvs[i].rows) :
              /\ PeriodYear(raw_csvs[i], r) # NoYear
              /\ PeriodYear(raw_csvs[i], r) = PeriodYear(raw_csvs[i], 1)}

\* C24: a file with a period column is accepted or excluded by the year of
\* that column, not by its name: when the period year is inside the window
\* the rows that pass the missing-key filter are written, and when it is
\* outside the window no row of the file is written.
C24_PeriodColumnDecides ==
    pc_icfes = "done" =>
        \A i \in SinglePeriodFiles :
            /\ (InWindow(PeriodYear(raw_csvs[i], 1))
                    /\ SurvivingRows(raw_csvs[i]) # {})
                  => \E k \in 1..Len(merged_src) : merged_src[k][1] = i
            /\ ~InWindow(PeriodYear(raw_csvs[i], 1))
                  => \A k \in 1..Len(merged_src) : merged_src[k][1] # i

\* C25: every row of the output has a year of four digits inside the
\* accepted window.
C25_YearInWindow ==
    pc_icfes = "done" =>
        \A i \in 1..Len(icfes_merged.rows) :
            /\ icfes_merged.rows[i][1] # NULL
            /\ Len(icfes_merged.rows[i][1]) = 4
            /\ AllDigits(icfes_merged.rows[i][1])
            /\ InWindow(DigitsVal(icfes_merged.rows[i][1]))

\* C26: the header written by a successful run never has one label twice.
C26_NoDuplicateLabel ==
    pc_icfes = "done" =>
        \A i, j \in 1..Len(icfes_merged.header) :
            icfes_merged.header[i] = icfes_merged.header[j] => i = j

\* C30: every row of the output has the columns of the header, in the
\* order of the header: the frame written for its source file has exactly
\* the header's labels.
C30_RowsUnderHeader ==
    pc_icfes = "done" =>
        \A i \in 1..Len(icfes_merged.rows) :
            /\ Len(icfes_merged.rows[i]) = Len(icfes_merged.header)
            /\ ProcessFile(raw_csvs[merged_src[i][1]],
                           FileYear(merged_src[i][1])).df.cols
                   = icfes_merged.header

\* ---- Join stage (Spec), continued ---------------------------------------

\* the batch that wrote row i of the enriched file
BatchOf(i) == (ddm_src[i] - 1) \div chunk_size

\* the region column the join of the written file was made on
JoinRegionLabel ==
    IF InSeq(s_depto_normalizado, ddm_csv.header) THEN s_depto_normalizado
    ELSE LET cands == <<s_cole_cod_depto_ubicacion, s_estu_cod_depto_presentacion,
                        s_cole_depto_ubicacion>>
         IN  cands[Min({k \in 1..Len(cands) : InSeq(cands[k], ddm_csv.header)})]

\* the rows of the batch of row i that share its year and its cell of the
\* column region, and had a value after the join
DonorsOf(i, region) ==
    SortedSeq({j \in 1..Len(ddm_csv.rows) :
        /\ BatchOf(j) = BatchOf(i)
        /\ FileCell(ddm_csv, s_anio, j) = FileCell(ddm_csv, s_anio, i)
        /\ FileCell(ddm_csv, region, j) = FileCell(ddm_csv, region, i)
        /\ ddm_pre[j] # NULL})

\* the value row i is to carry when the imputation is keyed on region
ImputedValue(i, region) ==
    IF ddm_pre[i] # NULL THEN ddm_pre[i]
    ELSE MeanOf([k \in 1..Len(DonorsOf(i, region)) |->
                    ddm_pre[DonorsOf(i, region)[k]]])

LookupUnique ==
    /\ pib_csv.exists
    /\ \A j, k \in 1..Len(pib_csv.rows) :
          (/\ FileCell(pib_csv, s_anio_api, j) = FileCell(pib_csv, s_anio_api, k)
           /\ FileCell(pib_csv, s_depto_divipola, j)
                  = FileCell(pib_csv, s_depto_divipola, k)) => j = k
    /\ \A j \in 1..Len(pib_csv.rows) :
          to_numeric(ReadCellNaN(FileCell(pib_csv, s_valor_api_mm, j))) # NULL

LoadCalled == pc_load \in {"done", "failed"}

\* the path load_dw.run starts from
PrimaryPath == IF ld_call.path = NoPath THEN DEFAULT_DDM ELSE ld_call.path

\* the header of the file the run read
UsedHeader == ld_disk[ld_out.used].header

\* the table as the phases before the COPY leave it
BeforeCopy ==
    truncate(create_if_not_exists(drop_if_different(tabla_before, UsedHeader),
                                  UsedHeader),
             ld_call.replace)

\* the phases a run without error commits, in order
AllCommits ==
    (IF drop_if_different(tabla_before, UsedHeader) # tabla_before
         THEN <<"drop">> ELSE <<>>)
        \o <<"create">>
        \o (IF ld_call.replace THEN <<"truncate">> ELSE <<>>)
        \o <<"copy">>

\* the error artifact of the call
ErrorArtifact ==
    [written |-> TRUE, dir |-> ld_out.used.dir, error_type |-> "PostgreSQL Error",
     error_code |-> ld_call.fault.pgcode, error_message |-> ld_call.fault.message,
     csv_path |-> ld_out.used, table |-> "ddm_icfes_pib"]

\* C21: a run without error commits create, truncate (when asked for) and
\* load apart, in that order; when the COPY fails the table has the columns
\* and exactly the rows the earlier phases committed and none of the rows
\* of the file, and the copy is not among the commits; every error of the
\* destination leaves an error artifact with the code, the message, the
\* table and the path, and the call raises.
C21_CopyRolledBack ==
    LoadCalled =>
        /\ pc_load = "done" => ld_out.commits = AllCommits
        /\ (res_load.error = "psycopg2.Error" /\ ld_call.fault.phase = "copy") =>
              /\ tabla.exists
              /\ tabla.columns = BeforeCopy.columns
              /\ tabla.rows = BeforeCopy.rows
              /\ ld_out.commits = SubSeq(AllCommits, 1, Len(AllCommits) - 1)
        /\ res_load.error = "psycopg2.Error" =>
              /\ ld_debug.error = ErrorArtifact
              /\ res_load.status = "error"
              /\ pc_load = "failed"
        /\ res_load.error # "psycopg2.Error" => ~ld_debug.error.written

\* the table of another header was dropped and created again, both
\* committed, and the COPY failed after one row: the new table is empty
C21_Witness ==
    /\ pc_load = "failed"
    /\ ld_call.fault.phase = "copy"
    /\ ld_call.fault.k = 1
    /\ tabla_before = OtherTable
    /\ ld_out.commits = <<"drop", "create">>
    /\ tabla.columns = _ddl(DdmHeader)
    /\ tabla.rows = <<>>
    /\ tabla.seq = 1
    /\ ld_debug.error.written

\* C22: the primary path is read when it exists, otherwise the first
\* existing path of the fallback list; when none exists the run raises
\* FileNotFoundError without connecting or touching the table, and the
\* artifact lists the primary path and then every fallback path, each once.
C22_SourceLocation ==
    LoadCalled =>
        LET alts == alt_paths(PrimaryPath)
            hits == {k \in 1..Len(alts) : alts[k] \in DOMAIN ld_disk}
        IN  /\ PrimaryPath \in DOMAIN ld_disk =>
                  ld_out.used = PrimaryPath /\ ~ld_debug.not_found.written
            /\ (PrimaryPath \notin DOMAIN ld_disk /\ hits # {}) =>
                  ld_out.used = alts[Min(hits)] /\ ~ld_debug.not_found.written
            /\ (PrimaryPath \notin DOMAIN ld_disk /\ hits = {}) =>
                  /\ pc_load = "failed"
                  /\ res_load.error = "FileNotFoundError"
                  /\ ld_debug.not_found
                        = [written |-> TRUE, dir |-> "data",
                           tried_paths |-> Dedupe(<<PrimaryPath>> \o alts)]
                  /\ ~ld_out.connected
                  /\ ld_out.commits = <<>>
                  /\ tabla = tabla_before

\* no path given and two files on disk, none where the run looks: the three
\* different paths of the list are in the artifact
C22_Witness ==
    /\ pc_load = "failed"
    /\ ld_call.path = NoPath
    /\ Cardinality(DOMAIN ld_disk) = 2
    /\ res_load.error = "FileNotFoundError"
    /\ ld_debug.not_found.written
    /\ ld_debug.not_found.tried_paths
          = <<Path("staging", n_ddm), Path("data", n_ddm), Path("data", n_con_pib)>>

\* ---- Index creation (SpecIdx) -------------------------------------------

\* the variants of group g the table has, in the order of the group
PresentVariants(g) ==
    SelectSeq(potential_indexes[g], LAMBDA c : InSeq(c, idx_columns))

\* the index _create_indexes is to leave for group g: that of the first
\* present variant the destination accepts
GroupIndex(g) ==
    LET ok == {k \in 1..Len(PresentVariants(g)) :
                  <<PresentVariants(g)[k]>> \notin idx_failing}
    IN  IF ok = {} THEN {} ELSE {<<PresentVariants(g)[Min(ok)]>>}

CompositeIndex ==
    IF InSeq(s_anio, idx_columns) /\ InSeq(s_cole_cod_depto_ubicacion, idx_columns)
           /\ idx_compuesto \notin idx_failing
        THEN {idx_compuesto} ELSE {}

\* C28: whatever indexes the destination refuses, _create_indexes returns
\* without raising and leaves the transaction usable with its pending rows;
\* the indexes left are, for every group, the one of the first present
\* variant that is accepted (so at most one per group) and the composite
\* index when accepted; every present variant up to the accepted one was
\* attempted, a refused one before it notwithstanding.
C28_IndexFailureContained ==
    pc_idx = "done" =>
        /\ ~idx_res.raised
        /\ idx_res.txn.status = "ok"
        /\ idx_res.txn.pending = idx_txn.pending
        /\ idx_res.txn.indexes
              = UNION {GroupIndex(g) : g \in 1..Len(potential_indexes)}
                    \cup CompositeIndex
        /\ idx_res.created_count = Cardinality(idx_res.txn.indexes)
        /\ \A g \in 1..Len(potential_indexes) :
              /\ Cardinality({k \in 1..Len(potential_indexes[g]) :
                     <<potential_indexes[g][k]>> \in idx_res.txn.indexes}) <= 1
              /\ \A k \in 1..Len(PresentVariants(g)) :
                    (\A j \in 1..(k - 1) : <<PresentVariants(g)[j]>> \in idx_failing)
                        => InSeq(<<PresentVariants(g)[k]>>, idx_res.attempted)

\* the index on año and the composite index were refused inside a
\* transaction with pending rows; the index on anio and the one of the
\* next group were created all the same
C28_Witness ==
    /\ pc_idx = "done"
    /\ idx_txn.pending = 2
    /\ idx_failing = {<<s_anio>>, idx_compuesto}
    /\ idx_res.attempted
          = <<<<s_anio>>, <<s_anio_api>>, <<s_cole_cod_depto_ubicacion>>,
              idx_compuesto>>
    /\ idx_res.txn.indexes = {<<s_anio_api>>, <<s_cole_cod_depto_ubicacion>>}
    /\ idx_res.txn.status = "ok"

\* ---- The DAG (SpecDag) --------------------------------------------------

Started(t) == task_tries[t] > 0

\* the stages downstream of each stage, as pairs <<stage, later stage>>
Downstream ==
    {<<"extract_icfes", "transform_icfes">>, <<"extract_icfes", "merge_icfes_pib">>,
     <<"extract_icfes", "load_to_datawarehouse">>,
     <<"extract_api_pib", "transform_api_pib">>,
     <<"extract_api_pib", "merge_icfes_pib">>,
     <<"extract_api_pib", "load_to_datawarehouse">>,
     <<"transform_icfes", "merge_icfes_pib">>,
     <<"transform_icfes", "load_to_datawarehouse">>,
     <<"transform_api_pib", "merge_icfes_pib">>,
     <<"transform_api_pib", "load_to_datawarehouse">>,
     <<"merge_icfes_pib", "load_to_datawarehouse">>,
     <<"init_datawarehouse", "load_to_datawarehouse">>}

\* C23: the Join task has started only if the Consolidator task and the
\* Normalizer task have succeeded, the Loader task only if the Join task
\* and the warehouse-init task have succeeded, and no stage downstream of
\* a stage that failed (or was never run for a failure above it) has
\* started.
C23_StageOrder ==
    /\ Started("merge_icfes_pib") =>
          /\ task_state["transform_icfes"] = "success"
          /\ task_state["transform_api_pib"] = "success"
    /\ Started("load_to_datawarehouse") =>
          /\ task_state["merge_icfes_pib"] = "success"
          /\ task_state["init_datawarehouse"] = "success"
    /\ \A p \in Downstream :
          task_state[p[1]] \in {"failed", "upstream_failed"} => ~Started(p[2])

\* the Normalizer task failed on both attempts while the Consolidator and
\* the warehouse-init succeeded: Join and Loader were never run
C23_Witness ==
    /\ task_state["transform_api_pib"] = "failed"
    /\ task_tries["transform_api_pib"] = 2
    /\ task_state["transform_icfes"] = "success"
    /\ task_state["init_datawarehouse"] = "success"
    /\ task_state["merge_icfes_pib"] = "upstream_failed"
    /\ task_state["load_to_datawarehouse"] = "upstream_failed"
    /\ ~Started("merge_icfes_pib")
    /\ ~Started("load_to_datawarehouse")

====
